---- MODULE Spec2Model ----
(***************************************************************************)
(* Runtime simulation core of the endless-runner game in src/js:           *)
(* Player (game.js), Obstacle (obstacles.js), Collectible                  *)
(* (collectibles.js), Level (level.js) and the Game.update tick (game.js). *)
(*                                                                         *)
(* Arithmetic is exact.  To stay in the integers the quantities are kept   *)
(* in fixed sub-units:                                                     *)
(*   time      1/3 ms   (timeStep = 1000/60 ms = 50 units)                 *)
(*   position  1/3 px   (a velocity of 20 px/s moves 1 unit per tick)      *)
(*   velocity  px/s                                                        *)
(*   distance  1/6 px   (300 px/s travels 30 units per tick)               *)
(*   deadline  1/1080000 of a deadline unit                                *)
(*   difficulty 1/40000                                                    *)
(* IEEE-754 rounding of the JavaScript numbers is not modelled.            *)
(***************************************************************************)
EXTENDS Integers, Sequences, FiniteSets, TLC

VARIABLES player, level, game, impulses, sprites, localStorage, now, log

vars == <<player, level, game, impulses, sprites, localStorage, now, log>>

(***************************************************************************)
(* Units                                                                   *)
(***************************************************************************)
Ms(t) == t * 3
Px(p) == p * 3

timeStep == Ms(1000) \div 60

(* v * (deltaTime / 1000) in position units, for the fixed time step *)
Dy(v) == (v * timeStep * 3) \div Ms(1000)

(***************************************************************************)
(* Player: constructor constants                                           *)
(***************************************************************************)
canvasHeight == 600
groundY == Px(canvasHeight - 50)
jumpForce == -600
gravity == 1200
baseSpeed == 300
coyoteTime == Ms(100)
jumpBufferTime == Ms(150)
standHeight == Px(50)
slideHeight == Px(30)

(* gravity * (deltaTime / 1000) for the fixed time step *)
GravityStep == (gravity * timeStep) \div Ms(1000)

NewPlayer ==
  [ y |-> groundY - standHeight,
    height |-> standHeight,
    velocityY |-> 0,
    isRunning |-> TRUE,
    isJumping |-> FALSE,
    isDoubleJumping |-> FALSE,
    isSliding |-> FALSE,
    isCrashed |-> FALSE,
    hasSpeedBoost |-> FALSE,
    speedBoost |-> 0,
    speedBoostDuration |-> 0,
    invincible |-> FALSE,
    invincibilityDuration |-> 0,
    invincibilityFlashTimer |-> 0,
    coyoteTimeCounter |-> 0,
    jumpBufferCounter |-> 0,
    canDoubleJump |-> FALSE,
    score |-> 0,
    coffeeCount |-> 0,
    codeSnippets |-> 0,
    gitCommits |-> 0,
    isActive |-> TRUE,
    isVisible |-> TRUE ]

(***************************************************************************)
(* Player methods                                                          *)
(***************************************************************************)
executeJump(p) ==
  [p EXCEPT !.velocityY = jumpForce,
            !.isJumping = TRUE,
            !.isRunning = FALSE,
            !.isSliding = FALSE,
            !.coyoteTimeCounter = coyoteTime + 1]

land(p) ==
  [p EXCEPT !.isJumping = FALSE,
            !.isDoubleJumping = FALSE,
            !.isRunning = TRUE,
            !.velocityY = 0,
            !.canDoubleJump = FALSE]

(* "in the air" as Player.jump and Player.update test it *)
inAir(p) == p.isJumping \/ p.y < groundY - p.height

(* which branch of Player.jump an input takes *)
jumpBranch(p) ==
  IF inAir(p) /\ ~p.canDoubleJump /\ ~p.isDoubleJumping THEN "buffer"
  ELSE IF ~p.isJumping \/ p.coyoteTimeCounter <= coyoteTime THEN "first"
  ELSE IF p.canDoubleJump THEN "double"
  ELSE "none"

jump(p) ==
  CASE jumpBranch(p) = "buffer" ->
         [p EXCEPT !.jumpBufferCounter = jumpBufferTime]
    [] jumpBranch(p) = "first" ->
         [executeJump(p) EXCEPT !.canDoubleJump = TRUE]
    [] jumpBranch(p) = "double" ->
         [p EXCEPT !.velocityY = (jumpForce * 8) \div 10,
                   !.isDoubleJumping = TRUE,
                   !.canDoubleJump = FALSE]
    [] OTHER -> p

slide(p) ==
  IF ~p.isJumping /\ ~p.isSliding
  THEN [p EXCEPT !.isSliding = TRUE, !.isRunning = FALSE, !.height = slideHeight]
  ELSE p

endSlide(p) ==
  IF p.isSliding
  THEN [p EXCEPT !.isSliding = FALSE, !.isRunning = TRUE, !.height = standHeight]
  ELSE p

(* variant of crash that keeps the git commit when it saves the player *)
crash_keepsCommit(p) ==
  IF p.invincible THEN p
  ELSE IF p.gitCommits > 0
  THEN [p EXCEPT !.invincible = TRUE,
                 !.invincibilityDuration = Ms(2000)]
  ELSE [p EXCEPT !.isCrashed = TRUE,
                 !.isRunning = FALSE,
                 !.isJumping = FALSE,
                 !.isSliding = FALSE,
                 !.velocityY = jumpForce \div 2]

crash(p) ==
  IF p.invincible THEN p
  ELSE IF p.gitCommits > 0
  THEN [p EXCEPT !.gitCommits = @ - 1,
                 !.invincible = TRUE,
                 !.invincibilityDuration = Ms(2000)]
  ELSE [p EXCEPT !.isCrashed = TRUE,
                 !.isRunning = FALSE,
                 !.isJumping = FALSE,
                 !.isSliding = FALSE,
                 !.velocityY = jumpForce \div 2]

(* variant of collectCoffee that charges the score for the coffee *)
collectCoffee_costsScore(p) ==
  [p EXCEPT !.coffeeCount = @ + 1,
            !.score = @ - 50,
            !.hasSpeedBoost = TRUE,
            !.speedBoost = 300,
            !.speedBoostDuration = Ms(12000)]

(* Player.collectCoffee *)
collectCoffee(p) ==
  [p EXCEPT !.coffeeCount = @ + 1,
            !.score = @ + 50,
            !.hasSpeedBoost = TRUE,
            !.speedBoost = 300,
            !.speedBoostDuration = Ms(12000)]

collectStackOverflow(p) ==
  [p EXCEPT !.score = @ + 100,
            !.invincible = TRUE,
            !.invincibilityDuration = Ms(5000)]

collectGitCommit(p) ==
  [p EXCEPT !.gitCommits = @ + 1, !.score = @ + 150]

collectCodeSnippet(p) ==
  [p EXCEPT !.codeSnippets = @ + 1, !.score = @ + 10]

getSpeed(p) == baseSpeed + p.speedBoost

(* Player.reset: the fields it assigns; the collision box is derived from  *)
(* y, height and isSliding                                                 *)
Player_reset(p) ==
  [p EXCEPT !.y = groundY - standHeight,
            !.velocityY = 0,
            !.isRunning = TRUE,
            !.isJumping = FALSE,
            !.isDoubleJumping = FALSE,
            !.isSliding = FALSE,
            !.isCrashed = FALSE,
            !.hasSpeedBoost = FALSE,
            !.speedBoost = 0,
            !.speedBoostDuration = 0,
            !.invincible = FALSE,
            !.invincibilityDuration = 0,
            !.isVisible = TRUE,
            !.isActive = TRUE,
            !.score = 0,
            !.coffeeCount = 0,
            !.codeSnippets = 0,
            !.gitCommits = 0,
            !.height = standHeight]

(***************************************************************************)
(* Player.update, in the order of the code                                 *)
(***************************************************************************)
(* crashed branch: falling physics only *)
updateCrashed(p) ==
  LET v == p.velocityY + GravityStep
      y == p.y + Dy(v)
  IN [p EXCEPT !.velocityY = v,
               !.y = y,
               !.isActive = IF y > groundY + Px(200) THEN FALSE ELSE @]

updateSpeedBoost(p) ==
  IF p.hasSpeedBoost
  THEN LET d == p.speedBoostDuration - timeStep
       IN IF d <= 0
          THEN [p EXCEPT !.speedBoostDuration = d,
                         !.hasSpeedBoost = FALSE,
                         !.speedBoost = 0]
          ELSE [p EXCEPT !.speedBoostDuration = d]
  ELSE p

(* variant of updateInvincibility that leaves the flicker as it is when    *)
(* the invincibility ends                                                  *)
updateInvincibility_keepsFlicker(p) ==
  IF p.invincible
  THEN LET d == p.invincibilityDuration - timeStep
           f == p.invincibilityFlashTimer + timeStep
           flash == f >= Ms(100)
           vis == IF flash THEN ~p.isVisible ELSE p.isVisible
       IN [p EXCEPT !.invincibilityDuration = d,
                    !.invincibilityFlashTimer = IF flash THEN 0 ELSE f,
                    !.invincible = (d > 0),
                    !.isVisible = vis]
  ELSE p

(* Player.update: invincibility and its flicker *)
updateInvincibility(p) ==
  IF p.invincible
  THEN LET d == p.invincibilityDuration - timeStep
           f == p.invincibilityFlashTimer + timeStep
           flash == f >= Ms(100)
           vis == IF flash THEN ~p.isVisible ELSE p.isVisible
       IN [p EXCEPT !.invincibilityDuration = d,
                    !.invincibilityFlashTimer = IF flash THEN 0 ELSE f,
                    !.invincible = (d > 0),
                    !.isVisible = IF d <= 0 THEN TRUE ELSE vis]
  ELSE p

(* gravity while in the air, then position integration *)
updatePosition(p) ==
  LET v == IF inAir(p) THEN p.velocityY + GravityStep ELSE p.velocityY
  IN [p EXCEPT !.velocityY = v, !.y = @ + Dy(v)]

updateCoyoteTime(p) ==
  IF ~p.isJumping /\ p.y < groundY - p.height
  THEN LET c == p.coyoteTimeCounter + timeStep
       IN [p EXCEPT !.coyoteTimeCounter = c,
                    !.isJumping = IF c > coyoteTime THEN TRUE ELSE @]
  ELSE [p EXCEPT !.coyoteTimeCounter = 0]

(* the buffered jump fires on this tick: the test inside the buffer block *)
bufferFires(p) ==
  p.jumpBufferCounter > 0 /\ ~p.isJumping /\ p.y >= groundY - p.height

updateJumpBuffer(p) ==
  IF p.jumpBufferCounter > 0
  THEN IF bufferFires(p)
       THEN [executeJump(p) EXCEPT !.jumpBufferCounter = 0]
       ELSE [p EXCEPT !.jumpBufferCounter = @ - timeStep]
  ELSE p

updateLanding(p) ==
  IF p.isJumping /\ p.y >= groundY - p.height THEN land(p) ELSE p

clampToGround(p) ==
  IF p.y > groundY - p.height
  THEN [p EXCEPT !.y = groundY - p.height, !.velocityY = 0]
  ELSE p

(* the player after the timers, physics and coyote update of a tick *)
beforeJumpBuffer(p) ==
  updateCoyoteTime(updatePosition(updateInvincibility(updateSpeedBoost(p))))

Player_update(p) ==
  IF p.isCrashed
  THEN updateCrashed(p)
  ELSE clampToGround(updateLanding(updateJumpBuffer(beforeJumpBuffer(p))))

(***************************************************************************)
(* Obstacle.applyEffect and Collectible.applyEffect, as seen by the player *)
(***************************************************************************)
ObstacleTypes == {"bug", "mergeConflict", "meeting", "technicalDebt"}
CrashTypes == {"bug", "technicalDebt"}
CollectibleTypes == {"coffee", "stackOverflow", "gitCommit", "codeSnippet"}

(* the boosts the code assigns to speedBoost: MergeConflict, Meeting, none, Coffee *)
SpeedBoosts == {-150, -100, 0, 300}

(* variant of slowDown with twice the penalty *)
slowDown_doubled(p, boost, duration) ==
  IF p.invincible THEN p
  ELSE [p EXCEPT !.speedBoost = 2 * boost,
                 !.hasSpeedBoost = TRUE,
                 !.speedBoostDuration = duration]

(* variant of slowDown without the invincibility test *)
slowDown_ignoresInvincibility(p, boost, duration) ==
  [p EXCEPT !.speedBoost = boost,
            !.hasSpeedBoost = TRUE,
            !.speedBoostDuration = duration]

slowDown(p, boost, duration) ==
  IF ~p.invincible
  THEN [p EXCEPT !.speedBoost = boost,
                 !.hasSpeedBoost = TRUE,
                 !.speedBoostDuration = duration]
  ELSE p

Obstacle_applyEffect(type, p) ==
  CASE type \in CrashTypes -> crash(p)
    [] type = "mergeConflict" -> slowDown(p, -150, Ms(3000))
    [] type = "meeting" -> slowDown(p, -100, Ms(2000))

Collectible_applyEffect(type, p) ==
  CASE type = "coffee" -> collectCoffee(p)
    [] type = "stackOverflow" -> collectStackOverflow(p)
    [] type = "gitCommit" -> collectGitCommit(p)
    [] type = "codeSnippet" -> collectCodeSnippet(p)

(* variant of canCollide that lets a crashed player collide *)
canCollide_whenCrashed(p) == p.isActive

(* the collision guard of Level.updateObstacles / updateCollectibles *)
canCollide(p) == p.isActive /\ ~p.isCrashed

(***************************************************************************)
(* Level                                                                   *)
(***************************************************************************)
levelSpeed == 300
deadlineSpeed == 20
difficultyRampUpDistance == 10000
catchPosition == 100

(* distance, in 1/6 px, of a length in px *)
Dist(px) == px * 6
(* speed * (deltaTime / 1000) in distance units, for the fixed time step *)
DistStep(speed) == (speed * timeStep * 6) \div Ms(1000)

(* difficulty in 1/40000: 40000 is 1.0, 100000 is maxDifficulty = 2.5 *)
DifficultyOne == (Dist(difficultyRampUpDistance) * 10) \div 15
maxDifficulty == (DifficultyOne * 25) \div 10

(* deadline position in 1/1080000: the factor table below is in 1/18000,   *)
(* the distance units of the 10 s of level speed over which the transition *)
(* multiplier gains 1.0, and deltaTime / 1000 = 1/60                       *)
FactorOne == Dist(10 * levelSpeed)
DeadlineUnit == FactorOne * (Ms(1000) \div timeStep)

Max(a, b) == IF a >= b THEN a ELSE b
Min(a, b) == IF a <= b THEN a ELSE b

(* deadlineWarningActive is the flag of the one Level class that defines   *)
(* isDeadlineWarning, the method Game.updateUI calls                       *)
NewLevel ==
  [ distance |-> 0,
    difficulty |-> DifficultyOne,
    deadlinePosition |-> 0,
    deadlineWarningActive |-> FALSE ]

(* distance += playerSpeed * (deltaTime / 1000) *)
updateDistance(l, playerSpeed) ==
  [l EXCEPT !.distance = @ + DistStep(playerSpeed)]

(* variant of updateDifficulty whose ramp reaches the ceiling at twice the *)
(* ramp distance                                                           *)
updateDifficulty_slowRamp(l) ==
  [l EXCEPT !.difficulty =
     DifficultyOne + Min(l.distance \div 2, maxDifficulty - DifficultyOne)]

(* variant of updateDifficulty without the ceiling *)
updateDifficulty_uncapped(l) ==
  [l EXCEPT !.difficulty = DifficultyOne + l.distance]

(* 1 + min(distance / 10000 * 1.5, 1.5) *)
updateDifficulty(l) ==
  [l EXCEPT !.difficulty =
     DifficultyOne + Min(l.distance, maxDifficulty - DifficultyOne)]

(* variant for which the game time is never below a threshold *)
gameTimeBelow_never(l, s) == FALSE

(* gameTimeSeconds = distance / speed, compared with s seconds *)
gameTimeBelow(l, s) == l.distance < Dist(s * levelSpeed)

(* the spawn-frequency multipliers of Level.updateSpawners, in tenths *)
MultiplierOne == 10
obstacleFrequencyMultiplier(l) ==
  IF gameTimeBelow(l, 10) THEN (MultiplierOne * 3) \div 10 ELSE MultiplierOne
collectibleFrequencyMultiplier(l) ==
  IF gameTimeBelow(l, 10) THEN (MultiplierOne * 15) \div 10 ELSE MultiplierOne

(* the phase of Level.updateDeadline's if-chain *)
deadlinePhase(l) ==
  IF gameTimeBelow(l, 10) THEN "grace"
  ELSE IF gameTimeBelow(l, 15) THEN "transition"
  ELSE IF l.distance < Dist(3000) THEN "reduced"
  ELSE "normal"

(* the multiplier applied to speedDifference, in 1/18000:                  *)
(*   grace 0.1; transition 0.1 + ((t - 10) / 5) * 0.5 with t = distance/300 *)
(*   = (distance - 9 * 300) / (10 * 300); reduced 0.6; normal 1            *)
deadlineFactor(l) ==
  CASE deadlinePhase(l) = "grace" -> FactorOne \div 10
    [] deadlinePhase(l) = "transition" -> l.distance - Dist(9 * levelSpeed)
    [] deadlinePhase(l) = "reduced" -> (FactorOne * 6) \div 10
    [] OTHER -> FactorOne

(* variant of speedDifference that leaves the player's speed out *)
speedDifference_ignoresPlayer(l, playerSpeed) ==
  LET sd == deadlineSpeed
  IN IF deadlinePhase(l) = "normal"
     THEN sd * deadlineFactor(l)
     ELSE Max(0, sd * deadlineFactor(l))

(* speedDifference after the if-chain, times 18000 *)
speedDifference(l, playerSpeed) ==
  LET sd == deadlineSpeed - (playerSpeed - levelSpeed)
  IN IF deadlinePhase(l) = "normal"
     THEN sd * deadlineFactor(l)
     ELSE Max(0, sd * deadlineFactor(l))

updateDeadline(l, playerSpeed) ==
  [l EXCEPT !.deadlinePosition =
     Max(0, l.deadlinePosition + speedDifference(l, playerSpeed))]

isDeadlineCaught(l) == l.deadlinePosition >= catchPosition * DeadlineUnit

(* Level.getDeadlineProximity: (deadlinePosition / 100) * 100, a           *)
(* percentage in the unit of the deadline position                         *)
getDeadlineProximity(l) == l.deadlinePosition

(* Level.isDeadlineWarning and its threshold, a percentage: the flag is    *)
(* assigned by the constructor and by reset only, never by update          *)
deadlineWarningThreshold == 70
isDeadlineWarning(l) == l.deadlineWarningActive

(* Level.update for a player p; hitO / hitC name the type of the obstacle  *)
(* and of the collectible whose box overlaps the player's on this tick     *)
(* ("none": no overlap).  Returns the new level and player.                *)
Level_update(l, p, hitO, hitC) ==
  LET l1 == updateDifficulty(updateDistance(l, getSpeed(p)))
      p1 == IF hitO # "none" /\ canCollide(p)
            THEN Obstacle_applyEffect(hitO, p) ELSE p
      p2 == IF hitC # "none" /\ canCollide(p1)
            THEN Collectible_applyEffect(hitC, p1) ELSE p1
  IN [level |-> updateDeadline(l1, getSpeed(p2)), player |-> p2]

(***************************************************************************)
(* Sprites: obstacles and collectibles with their collision boxes.         *)
(* Sprite geometry is in 1/120 px (a TechnicalDebt grows by 1/24 px in     *)
(* width and 7/120 px in height per update), its growth factor in 1/1200.  *)
(***************************************************************************)
Sx(px) == px * 120

(* a player coordinate (1/3 px) in sprite units *)
fromPx(v) == v * (Sx(1) \div Px(1))

canvasWidth == 800
playerX == 100
playerWidth == 50

(* Utils.checkCollision with the edges counted as overlap *)
checkCollision_touching(rect1, rect2) ==
  /\ rect1.x <= rect2.x + rect2.width
  /\ rect1.x + rect1.width >= rect2.x
  /\ rect1.y <= rect2.y + rect2.height
  /\ rect1.y + rect1.height >= rect2.y

checkCollision(rect1, rect2) ==
  /\ rect1.x < rect2.x + rect2.width
  /\ rect1.x + rect1.width > rect2.x
  /\ rect1.y < rect2.y + rect2.height
  /\ rect1.y + rect1.height > rect2.y

(* Player.updateCollisionBox *)
Player_collisionBox(p) ==
  IF p.isSliding
  THEN [ x |-> Sx(playerX + 10), y |-> fromPx(p.y) + Sx(20),
         width |-> Sx(playerWidth - 20), height |-> fromPx(p.height) - Sx(25) ]
  ELSE [ x |-> Sx(playerX + 10), y |-> fromPx(p.y) + Sx(5),
         width |-> Sx(playerWidth - 20), height |-> fromPx(p.height) - Sx(10) ]

(* Obstacle.updateCollisionBox / Collectible.updateCollisionBox *)
spriteBox(x, y, width, height) ==
  [ x |-> x + Sx(5), y |-> y + Sx(5),
    width |-> width - Sx(10), height |-> height - Sx(10) ]

(* the distance a sprite of velocity v (px/s) moves in one update *)
spriteStep(v) == (v * timeStep * Sx(1)) \div Ms(1000)

obstacleWidth(type) ==
  CASE type = "bug" -> Sx(40)
    [] type = "mergeConflict" -> Sx(60)
    [] type = "meeting" -> Sx(80)
    [] type = "technicalDebt" -> Sx(50)

obstacleHeight(type) ==
  CASE type = "bug" -> Sx(40)
    [] type = "mergeConflict" -> Sx(60)
    [] type = "meeting" -> Sx(40)
    [] type = "technicalDebt" -> Sx(70)

GrowthOne == 1200
maxGrowth == (GrowthOne * 15) \div 10
GrowthStep == (5 * timeStep * GrowthOne) \div (100 * Ms(1000))

(* new Obstacle({type, speed, x, y}) *)
Obstacle_new(type, speed, x, y) ==
  [ type |-> type, x |-> x, y |-> y, initialY |-> y,
    width |-> obstacleWidth(type), height |-> obstacleHeight(type),
    velocityX |-> -speed, currentGrowth |-> GrowthOne,
    collisionBox |-> spriteBox(x, y, obstacleWidth(type), obstacleHeight(type)),
    isActive |-> TRUE ]

(* ObstacleFactory.create(type, speed, groundY); above is the draw of      *)
(* randomInt(40, 120) for a Bug                                            *)
ObstacleFactory_create(type, speed, ground, above) ==
  Obstacle_new(type, speed, Sx(800),
               CASE type = "bug" -> ground - Sx(above)
                 [] type = "mergeConflict" -> ground - Sx(60)
                 [] type = "meeting" -> ground - Sx(40)
                 [] type = "technicalDebt" -> ground - Sx(70))

(* Obstacle.update(timeStep); sin is the value of the Bug's Math.sin term *)
Obstacle_update(o, sin) ==
  LET x1 == o.x + spriteStep(o.velocityX)
      y1 == IF o.type = "bug" THEN o.initialY + sin * Sx(20) ELSE o.y
      grows == o.type = "technicalDebt" /\ o.currentGrowth < maxGrowth
      g1 == IF grows THEN o.currentGrowth + GrowthStep ELSE o.currentGrowth
      w1 == IF grows THEN (Sx(50) * g1) \div GrowthOne ELSE o.width
      h1 == IF grows THEN (Sx(70) * g1) \div GrowthOne ELSE o.height
  IN [o EXCEPT !.x = x1, !.y = y1, !.currentGrowth = g1,
               !.width = w1, !.height = h1,
               !.collisionBox = spriteBox(x1, y1, w1, h1),
               !.isActive = IF x1 < -w1 THEN FALSE ELSE @]

(* what Obstacle.applyEffect does to the obstacle itself *)
Obstacle_afterEffect(o, p) ==
  IF o.type \in {"mergeConflict", "meeting"} /\ ~p.invincible
  THEN [o EXCEPT !.isActive = FALSE]
  ELSE o

collectibleSize(type) ==
  IF type = "codeSnippet" THEN Sx(20) ELSE Sx(30)

(* new Collectible({type, speed, x, y}) *)
Collectible_new(type, speed, x, y) ==
  [ type |-> type, x |-> x, y |-> y, initialY |-> y,
    width |-> collectibleSize(type), height |-> collectibleSize(type),
    velocityX |-> -speed,
    collisionBox |-> spriteBox(x, y, collectibleSize(type), collectibleSize(type)),
    isActive |-> TRUE ]

(* CollectibleFactory.create(type, speed, groundY); above is the draw of   *)
(* randomInt for the height                                                *)
CollectibleFactory_create(type, speed, ground, above) ==
  Collectible_new(type, speed, Sx(800), ground - Sx(above))

(* Collectible.update(timeStep): Sprite.update moves the sprite and        *)
(* synchronises the box, then a Coffee takes its new height, which the box *)
(* follows only on the next update; sin is the value of the Math.sin term  *)
Collectible_update(c, sin) ==
  LET x1 == IF c.isActive THEN c.x + spriteStep(c.velocityX) ELSE c.x
      box1 == IF c.isActive THEN spriteBox(x1, c.y, c.width, c.height)
              ELSE c.collisionBox
      y1 == IF c.type = "coffee" THEN c.initialY + sin * Sx(10) ELSE c.y
      w1 == IF c.type = "stackOverflow" THEN Sx(30) + sin * Sx(6) ELSE c.width
      h1 == IF c.type = "stackOverflow" THEN Sx(30) + sin * Sx(6) ELSE c.height
  IN [c EXCEPT !.x = x1, !.y = y1, !.width = w1, !.height = h1,
               !.collisionBox = IF c.type = "stackOverflow"
                                THEN spriteBox(x1, y1, w1, h1) ELSE box1,
               !.isActive = IF x1 < -w1 THEN FALSE ELSE @]

(* variant of Collectible_afterEffect that leaves the collectible active *)
Collectible_afterEffect_staysActive(c) == c

(* Collectible.applyEffect deactivates the collectible *)
Collectible_afterEffect(c) == [c EXCEPT !.isActive = FALSE]

(* Sprite.isCollidingWith(player) *)
isCollidingWith(sprite, p) ==
  checkCollision(sprite.collisionBox, Player_collisionBox(p))

removeAt(list, i) == SubSeq(list, 1, i - 1) \o SubSeq(list, i + 1, Len(list))

(* variant of pruneInactive that leaves an inactive sprite in the list *)
pruneInactive_keeps(list, i, sprite) ==
  [list EXCEPT ![i] = sprite]

(* the end of a loop iteration: splice(i, 1) if the sprite is inactive *)
pruneInactive(list, i, sprite) ==
  IF sprite.isActive THEN [list EXCEPT ![i] = sprite] ELSE removeAt(list, i)

(* Level.updateObstacles: the iterations i, i - 1, ..., 1 of the loop;     *)
(* collideObstacle is the rest of iteration i for the updated obstacle o   *)
RECURSIVE updateObstaclesFrom(_, _, _, _)
RECURSIVE collideObstacle(_, _, _, _, _)
collideObstacle(i, list, o, p, sin) ==
  IF o.isActive /\ canCollide(p) /\ isCollidingWith(o, p)
  THEN updateObstaclesFrom(i - 1, pruneInactive(list, i, Obstacle_afterEffect(o, p)),
                           Obstacle_applyEffect(o.type, p), sin)
  ELSE updateObstaclesFrom(i - 1, pruneInactive(list, i, o), p, sin)

updateObstaclesFrom(i, list, p, sin) ==
  IF i = 0 THEN [list |-> list, player |-> p]
  ELSE collideObstacle(i, list, Obstacle_update(list[i], sin), p, sin)

updateObstacles(list, p, sin) == updateObstaclesFrom(Len(list), list, p, sin)

(* Level.updateCollectibles, likewise *)
RECURSIVE updateCollectiblesFrom(_, _, _, _)
RECURSIVE collideCollectible(_, _, _, _, _)
collideCollectible(i, list, c, p, sin) ==
  IF c.isActive /\ canCollide(p) /\ isCollidingWith(c, p)
  THEN updateCollectiblesFrom(i - 1, pruneInactive(list, i, Collectible_afterEffect(c)),
                              Collectible_applyEffect(c.type, p), sin)
  ELSE updateCollectiblesFrom(i - 1, pruneInactive(list, i, c), p, sin)

updateCollectiblesFrom(i, list, p, sin) ==
  IF i = 0 THEN [list |-> list, player |-> p]
  ELSE collideCollectible(i, list, Collectible_update(list[i], sin), p, sin)

updateCollectibles(list, p, sin) == updateCollectiblesFrom(Len(list), list, p, sin)

(* the level's ground line in sprite units *)
levelGroundY == fromPx(groundY)

setX(sprite, x) == [sprite EXCEPT !.x = x]

(* Level.spawnObstaclePattern; draw.pattern is the draw of randomInt(0, 2) *)
spawnObstaclePattern(s, draw) ==
  CASE draw.pattern = 0 ->
         [s EXCEPT !.obstacles = @ \o
            << ObstacleFactory_create("bug", levelSpeed, levelGroundY - Sx(100), draw.above),
               ObstacleFactory_create("meeting", levelSpeed, levelGroundY, draw.above) >>]
    [] draw.pattern = 1 ->
         [s EXCEPT !.obstacles = @ \o
            << setX(ObstacleFactory_create("mergeConflict", levelSpeed, levelGroundY, draw.above),
                    Sx(canvasWidth)),
               setX(ObstacleFactory_create("bug", levelSpeed + 100, levelGroundY - Sx(80), draw.above),
                    Sx(canvasWidth + 200)),
               setX(ObstacleFactory_create("technicalDebt", levelSpeed, levelGroundY, draw.above),
                    Sx(canvasWidth + 400)) >>]
    [] draw.pattern = 2 ->
         [s EXCEPT !.obstacles = @ \o
            [i \in 1..3 |->
               setX(ObstacleFactory_create("technicalDebt", levelSpeed, levelGroundY, draw.above),
                    Sx(canvasWidth + (i - 1) * 100))]]

(* Level.spawnObstacle; draw.pattern = -1 stands for a patternRoll at or   *)
(* above the threshold, draw.type for the draw of createRandom             *)
spawnObstacle(l, s, draw) ==
  IF gameTimeBelow(l, 3) \/ l.distance < Dist(500) \/ Len(s.obstacles) >= 3
  THEN s
  ELSE IF draw.pattern >= 0
       THEN spawnObstaclePattern(s, draw)
       ELSE [s EXCEPT !.obstacles =
               Append(@, ObstacleFactory_create(draw.type, levelSpeed, levelGroundY, draw.above))]

(* 60 * cos and 60 * sin of i / 6 of a turn, in pixels; the irrational     *)
(* 60 * sin(pi / 3) is rounded to a whole unit of Sx                       *)
circleX(i) == CASE i = 0 -> Sx(60) [] i \in {1, 5} -> Sx(30)
                [] i \in {2, 4} -> -Sx(30) [] i = 3 -> -Sx(60)
circleY(i) == CASE i \in {0, 3} -> 0 [] i \in {1, 2} -> 6235 [] i \in {4, 5} -> -6235

(* sprite.x = x; sprite.y = y after construction: initialY and the         *)
(* collision box keep the values the constructor gave them                 *)
setXY(sprite, x, y) == [sprite EXCEPT !.x = x, !.y = y]

(* Level.spawnCollectiblePattern; draw.pattern is the draw of              *)
(* randomInt(0, 2), draw.above the draw of the height                      *)
spawnCollectiblePattern(s, draw) ==
  CASE draw.pattern = 0 ->
         [s EXCEPT !.collectibles = @ \o
            [i \in 1..5 |->
               Collectible_new("codeSnippet", levelSpeed,
                               Sx(canvasWidth + (i - 1) * 40),
                               levelGroundY - Sx(draw.above))]]
    [] draw.pattern = 1 ->
         [s EXCEPT !.collectibles = @ \o
            << setX(CollectibleFactory_create("coffee", levelSpeed, levelGroundY, draw.above),
                    Sx(canvasWidth)) >> \o
            [i \in 1..6 |->
               setXY(CollectibleFactory_create("codeSnippet", levelSpeed, levelGroundY, draw.above),
                     Sx(canvasWidth) + circleX(i - 1),
                     levelGroundY - Sx(draw.above) + circleY(i - 1))]]
    [] draw.pattern = 2 ->
         [s EXCEPT !.collectibles = @ \o
            << setX(CollectibleFactory_create("stackOverflow", levelSpeed, levelGroundY, draw.above),
                    Sx(canvasWidth + 200)) >> \o
            [i \in 1..5 |->
               setXY(CollectibleFactory_create("codeSnippet", levelSpeed, levelGroundY, draw.above),
                     Sx(canvasWidth + (i - 1) * 40),
                     levelGroundY - Sx(draw.above) + Sx((i - 1) * 10))]]

(* Level.spawnCollectible; draw.pattern = -1 stands for a patternRoll of   *)
(* 0.3 or more, draw.type for the draw of createRandom                     *)
spawnCollectible(s, draw) ==
  IF draw.pattern >= 0
  THEN spawnCollectiblePattern(s, draw)
  ELSE [s EXCEPT !.collectibles =
          Append(@, CollectibleFactory_create(draw.type, levelSpeed, levelGroundY, draw.above))]

(* the least value randomInt(1500 / difficulty, 3000 / difficulty) can     *)
(* return, rounded up to the unit of the timers                            *)
minObstacleInterval(l) ==
  (Ms(1500) * DifficultyOne + l.difficulty - 1) \div l.difficulty

obstacleTimerNext(l, s) ==
  s.obstacleTimer + (timeStep * obstacleFrequencyMultiplier(l)) \div MultiplierOne

collectibleTimerNext(l, s) ==
  s.collectibleTimer + (timeStep * collectibleFrequencyMultiplier(l)) \div MultiplierOne

(* Level.updateSpawners, the obstacle timer; d holds the random draws of   *)
(* this update                                                             *)
updateObstacleSpawner(l, s, d) ==
  IF obstacleTimerNext(l, s) >= s.obstacleInterval
  THEN [spawnObstacle(l, s, d.obstacle)
          EXCEPT !.obstacleTimer = 0,
                 !.obstacleInterval = minObstacleInterval(l)]
  ELSE [s EXCEPT !.obstacleTimer = obstacleTimerNext(l, s)]

(* Level.updateSpawners, the collectible timer *)
updateCollectibleSpawner(l, s, d) ==
  IF collectibleTimerNext(l, s) >= s.collectibleInterval
  THEN [spawnCollectible(s, d.collectible)
          EXCEPT !.collectibleTimer = 0,
                 !.collectibleInterval = d.collectibleInterval]
  ELSE [s EXCEPT !.collectibleTimer = collectibleTimerNext(l, s)]

updateSpawners(l, s, d) ==
  updateCollectibleSpawner(l, updateObstacleSpawner(l, s, d), d)

(* Level.update from the updateCollectibles call on: rc is its result for  *)
(* the player that updateObstacles left                                    *)
Level_afterCollectibles(l, s, rc, d) ==
  [ level |-> updateDeadline(l, getSpeed(rc.player)),
    sprites |-> updateSpawners(l, [s EXCEPT !.collectibles = rc.list], d),
    player |-> rc.player ]

(* Level.update from the updateObstacles call on: ro is its result *)
Level_afterObstacles(l, s, ro, d) ==
  Level_afterCollectibles(l, [s EXCEPT !.obstacles = ro.list],
                          updateCollectibles(s.collectibles, ro.player, d.sinC), d)

(* Level.update with the sprites in play *)
Level_updateSprites(l, s, p, d) ==
  Level_afterObstacles(updateDifficulty(updateDistance(l, getSpeed(p))), s,
                       updateObstacles(s.obstacles, p, d.sinO), d)

(***************************************************************************)
(* Game                                                                    *)
(***************************************************************************)
(* The browser's animation frames.  pendingFrames holds the ids of the     *)
(* callbacks requested and neither called nor cancelled yet.  An id is     *)
(* never handed out while it is pending; the smallest free one stands for  *)
(* the fresh id of the browser (animationFrameId is overwritten with it at *)
(* once at both call sites).  0 stands for null.                           *)
freshFrame(g) ==
  CHOOSE i \in 1..(Cardinality(g.pendingFrames) + 1) :
    i \notin g.pendingFrames /\ \A j \in 1..(i - 1) : j \in g.pendingFrames

(* this.animationFrameId = requestAnimationFrame(...) *)
requestFrame(g) ==
  [g EXCEPT !.animationFrameId = freshFrame(g),
            !.pendingFrames = @ \cup {freshFrame(g)}]

(* variant of cancelFrame that cancels nothing *)
cancelFrame_forgets(g) == g

(* if (this.animationFrameId) cancelAnimationFrame(this.animationFrameId) *)
cancelFrame(g) ==
  IF g.animationFrameId # 0
  THEN [g EXCEPT !.pendingFrames = @ \ {g.animationFrameId}]
  ELSE g

(* the fields of a Game that startGame does not assign: those of the       *)
(* constructor for the first game, those of the game so far after that     *)
keptFields(g) ==
  IF g = <<>>
  THEN [isSlidePressed |-> FALSE, animationFrameId |-> 0, pendingFrames |-> {}]
  ELSE [isSlidePressed |-> g.isSlidePressed,
        animationFrameId |-> g.animationFrameId,
        pendingFrames |-> g.pendingFrames]

(* variant of startGame that leaves the score of the last run in place *)
startGame_keepsScore(g, t) ==
  requestFrame(cancelFrame(
    [ isRunning |-> TRUE, isPaused |-> FALSE, isGameOver |-> FALSE,
      score |-> IF g = <<>> THEN 0 ELSE g.score,
      lastFrameTime |-> t, accumulatedTime |-> 0,
      isSlidePressed |-> keptFields(g).isSlidePressed,
      animationFrameId |-> keptFields(g).animationFrameId,
      pendingFrames |-> keptFields(g).pendingFrames ]))

(* Game.startGame at time t (performance.now()) *)
startGame(g, t) ==
  requestFrame(cancelFrame(
    [ isRunning |-> TRUE, isPaused |-> FALSE, isGameOver |-> FALSE, score |-> 0,
      lastFrameTime |-> t, accumulatedTime |-> 0,
      isSlidePressed |-> keptFields(g).isSlidePressed,
      animationFrameId |-> keptFields(g).animationFrameId,
      pendingFrames |-> keptFields(g).pendingFrames ]))

(* Game.restartGame at time t *)
restartGame(g, t) == startGame([cancelFrame(g) EXCEPT !.animationFrameId = 0], t)

StartedGame == startGame(<<>>, 0)

(***************************************************************************)
(* Utils: the high score kept in localStorage as a decimal string.  A      *)
(* string is a sequence of digits; <<>> stands for the missing key.        *)
(***************************************************************************)
RECURSIVE toString(_)
toString(n) ==
  IF n < 10 THEN <<n>> ELSE Append(toString(n \div 10), n % 10)

RECURSIVE parseInt(_)
parseInt(str) ==
  IF Len(str) = 1 THEN str[1]
  ELSE parseInt(SubSeq(str, 1, Len(str) - 1)) * 10 + str[Len(str)]

getHighScore(store) == IF store = <<>> THEN 0 ELSE parseInt(store)

(* variant of setHighScore that also replaces an equal stored score *)
setHighScore_onTie(store, score) ==
  IF score >= getHighScore(store)
  THEN [storage |-> toString(score), result |-> TRUE]
  ELSE [storage |-> store, result |-> FALSE]

setHighScore(store, score) ==
  IF score > getHighScore(store)
  THEN [storage |-> toString(score), result |-> TRUE]
  ELSE [storage |-> store, result |-> FALSE]

(* variant of endGame that leaves the game running *)
endGame_keepsRunning(g) ==
  IF g.isGameOver THEN g
  ELSE [g EXCEPT !.isGameOver = TRUE]

(* Game.endGame *)
endGame(g) ==
  IF g.isGameOver THEN g
  ELSE [g EXCEPT !.isRunning = FALSE, !.isGameOver = TRUE]

(* what Game.endGame writes to localStorage *)
endGameStorage(g, store) ==
  IF g.isGameOver THEN store ELSE setHighScore(store, g.score).storage

(* the test of Game.update that ends the run *)
runEnds_deadlineOnly(r) == isDeadlineCaught(r.level)
runEnds(r) == ~r.player.isActive \/ isDeadlineCaught(r.level)

(* Game.update(timeStep) *)
Game_update(g, l, p, hitO, hitC) ==
  LET p1 == Player_update(p)
      r == Level_update(l, p1, hitO, hitC)
  IN IF runEnds(r)
     THEN [game |-> endGame(g), level |-> r.level, player |-> r.player]
     ELSE [game |-> [g EXCEPT !.score = (r.level.distance \div 6) + r.player.score],
           level |-> r.level, player |-> r.player]

(* Game.update after level.update has returned r *)
Game_afterLevel(g, r) ==
  IF runEnds(r)
  THEN [game |-> endGame(g), level |-> r.level, player |-> r.player,
        sprites |-> r.sprites]
  ELSE [game |-> [g EXCEPT !.score = (r.level.distance \div 6) + r.player.score],
        level |-> r.level, player |-> r.player, sprites |-> r.sprites]

(* Game.update(timeStep) with the sprites in play *)
Game_updateSprites(g, l, p, s, d) ==
  Game_afterLevel(g, Level_updateSprites(l, s, Player_update(p), d))

(***************************************************************************)
(* Bounds of the model                                                     *)
(***************************************************************************)
(* jump inputs arrive only while the player is less than this many px      *)
(* above or below the standing position                                    *)
MaxAltitude == 20
(* crash-type obstacles are hit only while the player is at most this many *)
(* px above the standing position                                          *)
MaxHitAltitude == 10
(* the impulse counter saturates here *)
ImpulseCap == 3
(* collisions of SpecEffects happen only when the running timers are       *)
(* whole multiples of this many ticks                                      *)
EventSpacing == 60
(* collectibles are picked up only below this score *)
MaxScore == 160
(* collisions of SpecLevel happen only on the tick on which the distance   *)
(* passes a multiple of this many px                                       *)
EventDistance == 1000
(* a run of SpecLevel is followed up to this distance in px *)
MaxDistance == 10500
(* the count of submitted scores saturates here *)
SubmitCap == 2
(* the scores handed to setHighScore in SpecScores go up to this *)
MaxSubmitted == 12
(* SpecLoop follows the clock up to this many ms *)
MaxTime == 5000
(* the number of updates in one frame that the log tells apart: a frame    *)
(* with more is logged as UpdateCap + 1                                    *)
UpdateCap == 15
(* the longest gap between two frames is this many time steps beyond       *)
(* UpdateCap                                                               *)
LongFrameExcess == 2
(* a second gap between two frames: one and a half time steps *)
ShortFrame == (3 * timeStep) \div 2
(* the time between a frame and a key press: half a time step *)
KeyDelay == timeStep \div 2
(* the time between the game-over screen and the restart: one time step *)
RestartDelay == timeStep
(* pause and help keys are pressed only at whole multiples of this many ms *)
PauseSpacing == 3000
(* the game is paused at most this many times *)
MaxPauses == 1

(* the random draws of the first MaxChoiceSpawns obstacle spawns and of    *)
(* the first MaxChoiceSpawns collectible spawns range over the draw sets,  *)
(* the later ones are the default draws                                    *)
MaxChoiceSpawns == 2
(* SpecSprites stops a run at this distance (px)                           *)
MaxRunDistance == 3200
(* Game.startGame is called again at most this many times                  *)
MaxStarts == 1

(***************************************************************************)
(* Initial state: Game.startGame has constructed the player and the level  *)
(***************************************************************************)
NewSprites ==
  [ obstacles |-> <<>>,
    collectibles |-> <<>>,
    obstacleTimer |-> 0,
    collectibleTimer |-> 0,
    obstacleInterval |-> Ms(2000),
    collectibleInterval |-> Ms(1000) ]

(* observations: the scores handed to setHighScore, the updates of the     *)
(* last gameLoop frame, the time of the last resume, the spawner events so *)
(* far, the clicks on START / TRY AGAIN and whether the last one replaced  *)
(* a game far from its initial values, the Player.update calls made on a   *)
(* slowed player since the last slow-down hit, the Game.update calls made  *)
(* on a crashed player, what the last Level.update call returned, whether  *)
(* the last slide input to arrive was a slide-end                          *)
NewLog ==
  [ submits |-> 0, submittedMax |-> 0,
    lastScore |-> 0, lastBefore |-> 0, lastResult |-> FALSE,
    frameUpdates |-> 0, updatesAfterEnd |-> 0,
    resumedAt |-> -1, pauses |-> 0,
    spawnsO |-> 0, spawnsC |-> 0, starts |-> 0, startedOver |-> FALSE,
    slowedTicks |-> 0, crashedTicks |-> 0, caught |-> FALSE,
    slideEnded |-> FALSE ]

Init ==
  /\ player = NewPlayer
  /\ level = NewLevel
  /\ game = StartedGame
  /\ impulses = 0
  /\ sprites = NewSprites
  /\ localStorage = <<>>
  /\ now = 0
  /\ log = NewLog

(***************************************************************************)
(* SpecPlayer: the Player under jump / slide inputs, update ticks and      *)
(* crash-type obstacle hits.  impulses counts the velocity impulses        *)
(* Player.jump has applied since the player was last on the ground.        *)
(***************************************************************************)
grounded(p) == ~inAir(p)

inputAccepted == game.isRunning /\ ~game.isPaused

JumpInput ==
  /\ inputAccepted
  /\ player.y > groundY - standHeight - Px(MaxAltitude)
  /\ player.y < groundY - standHeight + Px(MaxAltitude)
  /\ player' = jump(player)
  /\ impulses' = IF jumpBranch(player) \in {"first", "double"}
                 THEN Min(impulses + 1, ImpulseCap) ELSE impulses
  /\ UNCHANGED <<level, game, sprites, localStorage, now, log>>

SlideInput ==
  /\ game.isRunning
  /\ player' = slide(player)
  /\ UNCHANGED <<level, game, impulses, sprites, localStorage, now, log>>

EndSlideInput ==
  /\ game.isRunning
  /\ player' = endSlide(player)
  /\ UNCHANGED <<level, game, impulses, sprites, localStorage, now, log>>

PlayerTick ==
  /\ player.isActive
  /\ player' = Player_update(player)
  /\ impulses' = IF grounded(player') THEN 0 ELSE impulses
  /\ UNCHANGED <<level, game, sprites, localStorage, now, log>>

CrashHit(type) ==
  /\ canCollide(player)
  /\ player.y >= groundY - standHeight - Px(MaxHitAltitude)
  /\ player' = Obstacle_applyEffect(type, player)
  /\ UNCHANGED <<level, game, impulses, sprites, localStorage, now, log>>

NextPlayer ==
  \/ JumpInput
  \/ SlideInput
  \/ EndSlideInput
  \/ PlayerTick
  \/ \E type \in CrashTypes : CrashHit(type)

SpecPlayer == Init /\ [][NextPlayer]_vars

(***************************************************************************)
(* SpecEffects: a player running on the ground under update ticks,         *)
(* obstacle hits of every type and pickups of every type.                  *)
(***************************************************************************)
timersAligned(p) ==
  /\ p.speedBoostDuration % (EventSpacing * timeStep) = 0
  /\ p.invincibilityDuration % (EventSpacing * timeStep) = 0

ObstacleHit(type) ==
  /\ canCollide(player)
  /\ timersAligned(player)
  /\ player' = Obstacle_applyEffect(type, player)
  /\ UNCHANGED <<level, game, impulses, sprites, localStorage, now, log>>

Collect(type) ==
  /\ canCollide(player)
  /\ timersAligned(player)
  /\ player.score < MaxScore
  /\ player' = Collectible_applyEffect(type, player)
  /\ UNCHANGED <<level, game, impulses, sprites, localStorage, now, log>>

NextEffects ==
  \/ PlayerTick
  \/ \E type \in ObstacleTypes : ObstacleHit(type)
  \/ \E type \in CollectibleTypes : Collect(type)

SpecEffects == Init /\ [][NextEffects]_vars

(***************************************************************************)
(* SpecLevel: whole Game.update ticks of a player who stays on the ground, *)
(* with slow-down obstacles and coffee met along the way.                  *)
(***************************************************************************)
LevelObstacles == {"none", "meeting", "mergeConflict"}
LevelCollectibles == {"none", "coffee"}

(* the score Game.endGame hands to setHighScore, noted in the log *)
logSubmit(lg, store, g) ==
  IF g.isGameOver THEN lg
  ELSE [lg EXCEPT !.submits = Min(@ + 1, SubmitCap),
                  !.submittedMax = Max(@, g.score),
                  !.lastScore = g.score,
                  !.lastBefore = getHighScore(store),
                  !.lastResult = setHighScore(store, g.score).result]

(* the tick on which the distance passes a multiple of EventDistance *)
eventDue(l, p) ==
  (l.distance \div Dist(EventDistance))
    < ((l.distance + DistStep(getSpeed(Player_update(p)))) \div Dist(EventDistance))

GameTick(hitO, hitC) ==
  /\ game.isRunning /\ ~game.isPaused
  /\ level.distance < Dist(MaxDistance)
  /\ (hitO # "none" \/ hitC # "none") => eventDue(level, player)
  /\ LET r == Game_update(game, level, player, hitO, hitC)
     IN /\ game' = r.game
        /\ level' = r.level
        /\ player' = r.player
        /\ localStorage' = IF r.game.isGameOver
                           THEN endGameStorage(game, localStorage)
                           ELSE localStorage
        /\ log' = IF r.game.isGameOver
                  THEN logSubmit(log, localStorage, game)
                  ELSE log
  /\ UNCHANGED <<impulses, sprites, now>>

NextLevel ==
  \E hitO \in LevelObstacles, hitC \in LevelCollectibles : GameTick(hitO, hitC)

SpecLevel == Init /\ [][NextLevel]_vars

(***************************************************************************)
(* SpecScores: scores handed to Utils.setHighScore one after the other,    *)
(* as Game.endGame does at the end of each run.                            *)
(***************************************************************************)
Submit(score) ==
  /\ localStorage' = setHighScore(localStorage, score).storage
  /\ log' = logSubmit(log, localStorage, [game EXCEPT !.score = score])
  /\ UNCHANGED <<player, level, game, impulses, sprites, now>>

NextScores == \E score \in 0..MaxSubmitted : Submit(score)

SpecScores == Init /\ [][NextScores]_vars

(***************************************************************************)
(* SpecLoop: animation frames (Game.gameLoop with its whole drain loop),   *)
(* pause keys, the help key and restarts, on a clock that advances between *)
(* the events.  The player stays on the ground; a Bug may be met along the *)
(* way.                                                                    *)
(***************************************************************************)
LoopObstacles == {"none", "bug"}

(* one pass of the body of the drain loop's while, on                      *)
(* st = [game, level, player, storage, log, acc]                           *)
drainStep(st, hitO) ==
  IF st.game.isPaused THEN st
  ELSE LET h == IF hitO # "none" /\ eventDue(st.level, st.player)
                THEN hitO ELSE "none"
           r == Game_update(st.game, st.level, st.player, h, "none")
           ends == r.game.isGameOver /\ ~st.game.isGameOver
           lg == IF ends THEN logSubmit(st.log, st.storage, st.game) ELSE st.log
       IN [st EXCEPT
             !.game = r.game,
             !.level = r.level,
             !.player = r.player,
             !.storage = IF ends THEN endGameStorage(st.game, @) ELSE @,
             !.log = [lg EXCEPT
                        !.frameUpdates = Min(@ + 1, UpdateCap + 1),
                        !.updatesAfterEnd =
                           IF st.game.isGameOver THEN 1 ELSE @]]

(* while (accumulatedTime >= timeStep) { ...; accumulatedTime -= timeStep } *)
RECURSIVE drain(_, _)
drain(st, hitO) ==
  IF st.acc >= timeStep
  THEN drain([drainStep(st, hitO) EXCEPT !.acc = @ - timeStep], hitO)
  ELSE st

(* the end of gameLoop: the loop goes on while the game is running *)
rescheduled(g) == IF g.isRunning THEN requestFrame(g) ELSE g

(* variant of afterDrain that drops what the drain loop left over *)
afterDrain_dropsRemainder(st, timestamp) ==
  [st EXCEPT !.game = rescheduled([@ EXCEPT !.lastFrameTime = timestamp,
                                            !.accumulatedTime = 0])]

(* gameLoop after its drain loop *)
afterDrain(st, timestamp) ==
  [st EXCEPT !.game = rescheduled([@ EXCEPT !.lastFrameTime = timestamp,
                                            !.accumulatedTime = st.acc])]

(* Game.gameLoop(timestamp) *)
gameLoop(g, l, p, store, lg, timestamp, hitO) ==
  afterDrain(
    drain([game |-> g, level |-> l, player |-> p, storage |-> store,
           log |-> [lg EXCEPT !.frameUpdates = 0, !.resumedAt = -1],
           acc |-> g.accumulatedTime + (timestamp - g.lastFrameTime)], hitO),
    timestamp)

(* variant of togglePause that resumes without re-anchoring the loop *)
togglePause_noAnchor(g, t) ==
  IF ~g.isRunning \/ g.isGameOver THEN g
  ELSE [g EXCEPT !.isPaused = ~g.isPaused]

(* Game.togglePause at time t (performance.now()) *)
togglePause(g, t) ==
  IF ~g.isRunning \/ g.isGameOver THEN g
  ELSE IF ~g.isPaused
  THEN [g EXCEPT !.isPaused = TRUE]
  ELSE [g EXCEPT !.isPaused = FALSE,
                 !.lastFrameTime = t,
                 !.accumulatedTime = 0]

(* Game.showInstructions *)
showInstructions(g) ==
  IF g.isRunning /\ ~g.isPaused THEN [g EXCEPT !.isPaused = TRUE] ELSE g

(* the gaps between two animation frames, and between a frame and a key *)
FrameGaps == {timeStep, ShortFrame, (UpdateCap + LongFrameExcess) * timeStep}
KeyDelays == {0, KeyDelay}

(* the callback of a frame that is pending *)
called(g, id) == [g EXCEPT !.pendingFrames = @ \ {id}]

(* the browser calls a pending callback back *)
Frame(gap, hitO) ==
  /\ game.pendingFrames # {}
  /\ now + gap <= Ms(MaxTime)
  /\ now' = now + gap
  /\ \E st \in {gameLoop(called(game, CHOOSE id \in game.pendingFrames : TRUE),
                          level, player, localStorage, log, now', hitO)} :
        /\ game' = st.game
        /\ level' = st.level
        /\ player' = st.player
        /\ localStorage' = st.storage
        /\ log' = st.log
  /\ UNCHANGED <<impulses, sprites>>

(* the P / Escape key or the pause button *)
TogglePause(delay) ==
  /\ game.isRunning
  /\ now % Ms(PauseSpacing) = 0
  /\ game.isPaused \/ log.pauses < MaxPauses
  /\ now + delay <= Ms(MaxTime)
  /\ now' = now + delay
  /\ game' = togglePause(game, now')
  /\ log' = IF game.isPaused
            THEN [log EXCEPT !.resumedAt = now']
            ELSE [log EXCEPT !.pauses = @ + 1]
  /\ UNCHANGED <<player, level, impulses, sprites, localStorage>>

(* the H / ? key or the help button *)
ShowInstructions ==
  /\ game.isRunning /\ ~game.isPaused
  /\ now % Ms(PauseSpacing) = 0
  /\ log.pauses < MaxPauses
  /\ game' = showInstructions(game)
  /\ log' = [log EXCEPT !.pauses = @ + 1]
  /\ UNCHANGED <<player, level, impulses, sprites, localStorage, now>>

(* Space / Enter on the game-over screen, or the TRY AGAIN button *)
Restart ==
  /\ game.isGameOver
  /\ now + RestartDelay <= Ms(MaxTime)
  /\ now' = now + RestartDelay
  /\ game' = restartGame(game, now')
  /\ player' = NewPlayer
  /\ level' = NewLevel
  /\ sprites' = NewSprites
  /\ log' = [log EXCEPT !.frameUpdates = 0, !.resumedAt = -1]
  /\ UNCHANGED <<impulses, localStorage>>

NextLoop ==
  \/ \E gap \in FrameGaps, hitO \in LoopObstacles : Frame(gap, hitO)
  \/ \E delay \in KeyDelays : TogglePause(delay)
  \/ ShowInstructions
  \/ Restart

SpecLoop == Init /\ [][NextLoop]_vars

(***************************************************************************)
(* SpecSprites: whole Game.update ticks of a player who stays on the       *)
(* ground, with the obstacles and collectibles the spawners create, their  *)
(* movement, their collisions with the player and their pruning; the game  *)
(* can be started again at any time.                                       *)
(***************************************************************************)
DefaultObstacleDraw == [pattern |-> -1, type |-> "bug", above |-> 120]
ObstacleDraws ==
  { DefaultObstacleDraw,
    [pattern |-> -1, type |-> "bug", above |-> 40],
    [pattern |-> -1, type |-> "meeting", above |-> 120],
    [pattern |-> -1, type |-> "mergeConflict", above |-> 120],
    [pattern |-> -1, type |-> "technicalDebt", above |-> 120],
    [pattern |-> 2, type |-> "technicalDebt", above |-> 120] }

DefaultCollectibleDraw == [pattern |-> -1, type |-> "codeSnippet", above |-> 180]
CollectibleDraws ==
  { DefaultCollectibleDraw,
    [pattern |-> -1, type |-> "coffee", above |-> 50],
    [pattern |-> -1, type |-> "codeSnippet", above |-> 30],
    [pattern |-> 2, type |-> "stackOverflow", above |-> 180] }

(* the draw of randomInt(800, 2000) for the next collectible interval *)
CollectibleIntervals == {Ms(2000)}

(* the values of the Math.sin terms of a Bug and of a Coffee *)
SinValues == {-1, 1}

hasType(list, type) == \E i \in DOMAIN list : list[i].type = type

(* the spawner's timer has reached its interval in the update that left s: *)
(* only then is the timer back at 0                                        *)
obstacleSpawnDue(s) == s.obstacleTimer = 0
collectibleSpawnDue(s) == s.collectibleTimer = 0

SpriteTick(d) ==
  /\ game.isRunning /\ ~game.isPaused
  /\ level.distance < Dist(MaxRunDistance)
  /\ d.obstacle # DefaultObstacleDraw => log.spawnsO < MaxChoiceSpawns
  /\ d.collectible # DefaultCollectibleDraw => log.spawnsC < MaxChoiceSpawns
  /\ d.sinO # 1 => hasType(sprites.obstacles, "bug")
  /\ d.sinC # 1 => hasType(sprites.collectibles, "coffee")
  /\ \E r \in {Game_updateSprites(game, level, player, sprites, d)} :
        /\ d.obstacle # DefaultObstacleDraw => obstacleSpawnDue(r.sprites)
        /\ d.collectible # DefaultCollectibleDraw => collectibleSpawnDue(r.sprites)
        /\ game' = r.game
        /\ level' = r.level
        /\ player' = r.player
        /\ sprites' = r.sprites
        /\ localStorage' = IF r.game.isGameOver
                           THEN endGameStorage(game, localStorage)
                           ELSE localStorage
        /\ log' = [(IF r.game.isGameOver THEN logSubmit(log, localStorage, game) ELSE log)
                     EXCEPT
                     !.spawnsO = IF obstacleSpawnDue(r.sprites)
                                 THEN Min(@ + 1, MaxChoiceSpawns) ELSE @,
                     !.spawnsC = IF collectibleSpawnDue(r.sprites)
                                 THEN Min(@ + 1, MaxChoiceSpawns) ELSE @]
  /\ UNCHANGED <<impulses, now>>

(* the state has left every initial value that a new game restores *)
farFromStart ==
  /\ level.distance > 0 /\ level.deadlinePosition > 0
  /\ level.difficulty > DifficultyOne /\ game.score > 0
  /\ sprites.obstacles # <<>> /\ sprites.collectibles # <<>>
  /\ sprites.obstacleTimer > 0 /\ sprites.collectibleTimer > 0
  /\ sprites.obstacleInterval # NewSprites.obstacleInterval
  /\ sprites.collectibleInterval # NewSprites.collectibleInterval

(* the START button (reached during a run through the instructions screen  *)
(* and its BACK button) or TRY AGAIN on the game-over screen               *)
StartGame ==
  /\ log.starts < MaxStarts
  /\ game' = startGame(game, now)
  /\ player' = NewPlayer
  /\ level' = NewLevel
  /\ sprites' = NewSprites
  /\ log' = [log EXCEPT !.starts = @ + 1, !.startedOver = farFromStart,
                        !.frameUpdates = 0, !.resumedAt = -1]
  /\ UNCHANGED <<impulses, localStorage, now>>

NextSprites ==
  \/ \E dO \in ObstacleDraws, dC \in CollectibleDraws,
        dI \in CollectibleIntervals, sinO \in SinValues, sinC \in SinValues :
        SpriteTick([obstacle |-> dO, collectible |-> dC, collectibleInterval |-> dI,
                    sinO |-> sinO, sinC |-> sinC])
  \/ StartGame

SpecSprites == Init /\ [][NextSprites]_vars

(***************************************************************************)
(* Claims checked under SpecPlayer                                         *)
(***************************************************************************)
stateFlags(p) ==
  <<p.isRunning, p.isJumping, p.isDoubleJumping, p.isSliding, p.isCrashed>>

(* C1: between leaving the ground and the next landing Player.jump applies *)
(* at most two velocity impulses (a first jump and one double jump),       *)
(* however the jump inputs interleave with update ticks.                   *)
C1_AtMostTwoImpulses == impulses <= 2

(* C3: on an update tick that finds a buffered jump pending and the player *)
(* on the ground, the jump is executed: the tick ends with                 *)
(* velocityY = jumpForce and isJumping.                                    *)
C3_BufferedJumpFires ==
  [][ ( /\ ~player.isCrashed
        /\ bufferFires(beforeJumpBuffer(player))
        /\ player' = Player_update(player) )
      => (player'.velocityY = jumpForce /\ player'.isJumping) ]_vars

(* C4: a jump input while the player is in the air without having jumped   *)
(* (isJumping false) and within the coyote window executes a first jump    *)
(* at once.                                                                *)
C4_CoyoteJumpFires ==
  [][ ( /\ ~player.isCrashed
        /\ ~player.isJumping
        /\ player.y < groundY - player.height
        /\ player.coyoteTimeCounter <= coyoteTime
        /\ player' = jump(player) )
      => (player'.velocityY = jumpForce /\ player'.isJumping) ]_vars

(* C5: isSliding is never true together with isJumping or isDoubleJumping. *)
C5_SlideExcludesJump ==
  ~(player.isSliding /\ (player.isJumping \/ player.isDoubleJumping))

(* C6: once isCrashed is true no step changes the state flags or the       *)
(* height, the vertical velocity changes by gravity only, and isCrashed is *)
(* never true together with isSliding, isJumping or isDoubleJumping.       *)
C6_CrashedIsTerminal ==
  [][ player.isCrashed =>
        /\ stateFlags(player') = stateFlags(player)
        /\ player'.height = player.height
        /\ player'.velocityY \in {player.velocityY, player.velocityY + GravityStep}
        /\ ~(player'.isSliding \/ player'.isJumping \/ player'.isDoubleJumping)
    ]_vars

(***************************************************************************)
(* Claims checked under SpecEffects                                        *)
(***************************************************************************)
(* C2: a crash-type obstacle that hits a non-invincible player takes       *)
(* exactly one git commit, grants 2000 ms of invincibility and does not    *)
(* crash the player when gitCommits > 0, and crashes the player when       *)
(* gitCommits = 0.                                                         *)
C2_SpareLifeOrCrash ==
  [][ \A type \in CrashTypes :
        ( /\ canCollide(player)
          /\ ~player.invincible
          /\ player' = Obstacle_applyEffect(type, player) )
        => IF player.gitCommits > 0
           THEN /\ player'.gitCommits = player.gitCommits - 1
                /\ player'.invincible
                /\ player'.invincibilityDuration = Ms(2000)
                /\ ~player'.isCrashed
           ELSE player'.isCrashed ]_vars

(* a spare life has just been used: the commit that was picked up is gone  *)
(* and the 2000 ms of invincibility have just been granted                 *)
C2_Witness ==
  /\ player.gitCommits = 0
  /\ player.score >= 150
  /\ player.invincible
  /\ player.invincibilityDuration = Ms(2000)
  /\ ~player.isCrashed

(* C7: while the player is invincible a collision with an obstacle of any  *)
(* type leaves the state flags, speedBoost, speedBoostDuration and         *)
(* gitCommits as they were.                                                *)
C7_InvincibleUnaffected ==
  (canCollide(player) /\ player.invincible) =>
    \A type \in ObstacleTypes :
      LET q == Obstacle_applyEffect(type, player)
      IN /\ stateFlags(q) = stateFlags(player)
         /\ q.hasSpeedBoost = player.hasSpeedBoost
         /\ q.speedBoost = player.speedBoost
         /\ q.speedBoostDuration = player.speedBoostDuration
         /\ q.gitCommits = player.gitCommits

(* an invincible player who holds a spare life and a running slow-down is  *)
(* about to be hit                                                         *)
C7_Witness ==
  /\ canCollide(player)
  /\ timersAligned(player)
  /\ player.invincible
  /\ player.gitCommits > 0
  /\ player.speedBoost < 0
  /\ player.speedBoostDuration > 0

(***************************************************************************)
(* Claims checked under SpecLevel                                          *)
(***************************************************************************)
(* C8: deadlinePosition never decreases from one Level.update to the next. *)
C8_DeadlineNeverDecreases ==
  [][ level'.deadlinePosition >= level.deadlinePosition ]_vars

(* C17: as long as the game time (distance / level speed) is below 15 s   *)
(* the obstacle spawn-frequency multiplier and the multiplier of the       *)
(* deadline's advance are both below 1; afterwards both are 1.             *)
C17_GracePeriodFifteenSeconds ==
  IF gameTimeBelow(level, 15)
  THEN /\ obstacleFrequencyMultiplier(level) < MultiplierOne
       /\ deadlineFactor(level) < FactorOne
  ELSE /\ obstacleFrequencyMultiplier(level) = MultiplierOne
       /\ deadlineFactor(level) = FactorOne

(* the speeds Player.getSpeed can return *)
PlayerSpeeds == {baseSpeed + b : b \in SpeedBoosts}

(* the level as Level.update hands it to updateDeadline on the next tick *)
levelAtDeadlineUpdate ==
  updateDifficulty(updateDistance(level, getSpeed(Player_update(player))))

advance(l, playerSpeed) ==
  updateDeadline(l, playerSpeed).deadlinePosition - l.deadlinePosition

(* C9: of two updateDeadline calls from the same level state, the one made *)
(* with the higher player speed advances deadlinePosition by strictly less.*)
C9_FasterPlayerSlowerDeadline ==
  \A s1 \in PlayerSpeeds, s2 \in PlayerSpeeds :
    s1 < s2 => advance(levelAtDeadlineUpdate, s2) < advance(levelAtDeadlineUpdate, s1)

(* past the grace period, with the deadline on its way and a coffee boost  *)
(* running                                                                 *)
C9_Witness ==
  /\ game.isRunning
  /\ deadlinePhase(level) = "normal"
  /\ level.deadlinePosition > 0
  /\ player.speedBoost = 300

(* C10: difficulty never decreases from tick to tick and always lies in    *)
(* [1, 2.5].                                                               *)
C10_DifficultyMonotoneBounded ==
  /\ level.difficulty \in DifficultyOne..maxDifficulty
  /\ [][ /\ level'.difficulty >= level.difficulty
         /\ level'.difficulty \in DifficultyOne..maxDifficulty ]_vars

(* the run has gone past the ramp distance and the difficulty sits at the  *)
(* ceiling                                                                 *)
C10_Witness ==
  /\ level.distance > Dist(difficultyRampUpDistance)
  /\ level.difficulty = maxDifficulty

(* C11: updateDifficulty yields exactly 1.0 at distance 0 and exactly the  *)
(* ceiling 2.5 at every distance >= 10000.                                 *)
C11_DifficultyEndpoints ==
  /\ updateDifficulty(NewLevel).difficulty = DifficultyOne
  /\ level.distance = 0 => updateDifficulty(level).difficulty = DifficultyOne
  /\ level.distance >= Dist(difficultyRampUpDistance) =>
       /\ level.difficulty = maxDifficulty
       /\ updateDifficulty(level).difficulty = maxDifficulty

(* Level.update has just taken the distance to the ramp distance or past it *)
C11_Witness ==
  /\ level.distance >= Dist(difficultyRampUpDistance)
  /\ level.distance < Dist(difficultyRampUpDistance) + DistStep(baseSpeed + 300)
  /\ updateDifficulty(level).difficulty = maxDifficulty

(***************************************************************************)
(* Claims checked under SpecSprites                                        *)
(***************************************************************************)
(* C12: a step that starts the game again leaves distance = 0,             *)
(* deadlinePosition = 0, difficulty = 1, score = 0, both spawn timers at   *)
(* 0, both spawn intervals at their constructor values (2000 ms, 1000 ms)  *)
(* and no obstacle and no collectible in play, whatever the state before.  *)
C12_RestartResets ==
  [][ log'.starts > log.starts =>
        /\ level'.distance = 0
        /\ level'.deadlinePosition = 0
        /\ level'.difficulty = DifficultyOne
        /\ game'.score = 0
        /\ sprites'.obstacleTimer = 0
        /\ sprites'.collectibleTimer = 0
        /\ sprites'.obstacleInterval = Ms(2000)
        /\ sprites'.collectibleInterval = Ms(1000)
        /\ sprites'.obstacles = <<>>
        /\ sprites'.collectibles = <<>>
    ]_vars

(* a game just started again from a state with sprites in play, a score,   *)
(* a deadline that has advanced and timers and intervals that have moved    *)
C12_Witness ==
  /\ log.starts > 0 /\ log.startedOver
  /\ level.distance = 0 /\ sprites.obstacles = <<>> /\ sprites.collectibles = <<>>

(* the Coffee's box overlaps the player's on the next update (the box of a *)
(* Coffee does not depend on this update's Math.sin term)                  *)
coffeeReached(c) ==
  /\ c.type = "coffee" /\ c.isActive
  /\ isCollidingWith(Collectible_update(c, 1), Player_update(player))

(* the collectible c after one more update, whatever its Math.sin term *)
sameCollectible(c, c2) ==
  /\ c2.type = c.type /\ c2.initialY = c.initialY
  /\ c2.x = c.x + spriteStep(c.velocityX)

(* C13: in an update in which an active Coffee's box overlaps the box of a *)
(* player who is active and not crashed, speedBoost becomes 300,           *)
(* speedBoostDuration 12000 ms, getSpeed() baseSpeed + 300, and after the  *)
(* update the Coffee is no longer in the collectibles in play, which hold  *)
(* no inactive collectible.                                                *)
C13_CoffeeBoost ==
  [][ \A i \in DOMAIN sprites.collectibles :
        ( /\ log'.starts = log.starts
          /\ coffeeReached(sprites.collectibles[i])
          /\ canCollide(player') )
        => /\ player'.speedBoost = 300
           /\ player'.speedBoostDuration = Ms(12000)
           /\ getSpeed(player') = baseSpeed + 300
           /\ player'.coffeeCount = player.coffeeCount + 1
           /\ \A j \in DOMAIN sprites'.collectibles :
                /\ sprites'.collectibles[j].isActive
                /\ ~sameCollectible(sprites.collectibles[i], sprites'.collectibles[j])
    ]_vars

(* a Coffee has just been collected: the boost is fresh and no Coffee is   *)
(* left in play                                                            *)
C13_Witness ==
  /\ player.coffeeCount = 1 /\ ~player.isCrashed
  /\ player.speedBoost = 300 /\ player.speedBoostDuration = Ms(12000)
  /\ sprites.collectibles # <<>> /\ ~hasType(sprites.collectibles, "coffee")

(* C14: after every Level.update the obstacles in play are all active and  *)
(* none has x + width < 0.                                                 *)
C14_NoStaleObstacle ==
  \A i \in DOMAIN sprites.obstacles :
    /\ sprites.obstacles[i].isActive
    /\ sprites.obstacles[i].x + sprites.obstacles[i].width >= 0

(* an obstacle was spawned and has left the collection past the left edge: *)
(* the player was neither slowed down nor crashed by it                    *)
C14_Witness ==
  /\ log.starts = 0 /\ log.spawnsO = 1
  /\ level.distance >= Dist(2000)
  /\ sprites.obstacles = <<>>
  /\ ~player.isCrashed /\ ~player.hasSpeedBoost

(* the collision boxes of the player and of the sprites in play *)
boxesInPlay ==
  {Player_collisionBox(player)}
    \cup {sprites.obstacles[i].collisionBox : i \in DOMAIN sprites.obstacles}
    \cup {sprites.collectibles[i].collisionBox : i \in DOMAIN sprites.collectibles}

(* the boxes share no interior point on at least one axis *)
apart(a, b) ==
  \/ a.x + a.width <= b.x \/ b.x + b.width <= a.x
  \/ a.y + a.height <= b.y \/ b.y + b.height <= a.y

(* C15: for every two collision boxes in play checkCollision(a, b) equals  *)
(* checkCollision(b, a), and boxes that only touch at an edge or are       *)
(* disjoint on an axis do not collide.                                     *)
C15_StrictSymmetricOverlap ==
  \A a, b \in boxesInPlay :
    /\ checkCollision(a, b) <=> checkCollision(b, a)
    /\ apart(a, b) => ~checkCollision(a, b)

(* a sprite's box touches the player's box at its right edge while their   *)
(* vertical extents overlap                                                *)
C15_Witness ==
  \E a, b \in boxesInPlay :
    /\ a = Player_collisionBox(player)
    /\ a.x + a.width = b.x
    /\ a.y < b.y + b.height /\ b.y < a.y + a.height
    /\ ~checkCollision(a, b)

(***************************************************************************)
(* Claims checked under SpecScores                                         *)
(***************************************************************************)
(* C16: setHighScore(s) returns true exactly when s is strictly greater    *)
(* than the stored high score, and then the stored value becomes s;        *)
(* otherwise it returns false and the stored value is unchanged; so        *)
(* getHighScore() is always the maximum score ever submitted (0 if none).  *)
C16_HighScoreIsMaximum ==
  /\ getHighScore(localStorage) = log.submittedMax
  /\ log.submits > 0 =>
       /\ log.lastResult <=> (log.lastScore > log.lastBefore)
       /\ getHighScore(localStorage) =
            IF log.lastResult THEN log.lastScore ELSE log.lastBefore

(* a two-digit score equal to the stored high score has just been refused  *)
C16_Witness ==
  /\ log.submits >= 2
  /\ log.lastScore >= 10
  /\ log.lastScore = log.lastBefore
  /\ ~log.lastResult
  /\ localStorage = toString(log.lastScore)

(***************************************************************************)
(* Claims checked under SpecLoop                                           *)
(***************************************************************************)
(* C18: while the game is paused a frame performs no Game.update (player   *)
(* and level are unchanged), and the first frame after a resume by         *)
(* togglePause simulates at most the time elapsed since the resume.        *)
C18_PauseFreezesAndResumeReanchors ==
  [][ /\ (game.isPaused /\ game'.isPaused) =>
           (player' = player /\ level' = level /\ log'.frameUpdates = 0)
      /\ (log.resumedAt >= 0 /\ log'.resumedAt = -1) =>
           log'.frameUpdates * timeStep <= now' - log.resumedAt ]_vars

(* the game was paused and resumed, and a later frame has updated the game *)
C18_Witness ==
  /\ log.pauses = 1
  /\ ~game.isPaused
  /\ log.resumedAt = -1
  /\ log.frameUpdates >= 1
  /\ level.distance > 0

(* C19: once Game.endGame has ended the run, no further Game.update (and  *)
(* so no Player.update or Level.update) is made for it, the remaining      *)
(* iterations of the same frame's drain loop included.                     *)
C19_NoUpdateAfterEnd == log.updatesAfterEnd = 0

(* C20: the number of Game.update calls in one gameLoop frame stays below  *)
(* a fixed constant, whatever the time since the previous frame.           *)
C20_UpdatesPerFrameBounded == log.frameUpdates <= UpdateCap

(***************************************************************************)
(* Population of the level, checked under SpecSprites                      *)
(***************************************************************************)
(* C21: after any sequence of ticks the level holds at most 3 live         *)
(* obstacles and at most 5 live collectibles, multi-entity patterns        *)
(* included.                                                               *)
C21_PopulationCaps ==
  /\ Len(sprites.obstacles) <= 3
  /\ Len(sprites.collectibles) <= 5

(***************************************************************************)
(* The duration counters as IEEE-754 doubles.  deltaTime is the double     *)
(* nearest to 1000 / 60, and every value a counter takes while it is       *)
(* counted down from a whole number of milliseconds is a multiple of 2^-48 *)
(* below 2^14: a double is held as its sign, its integer part and its 48   *)
(* fraction bits in two limbs of 24 bits.                                  *)
(***************************************************************************)
Limb == 16777216

Double(neg, int, hi, lo) == [neg |-> neg, int |-> int, hi |-> hi, lo |-> lo]

(* a whole number of milliseconds, given in the unit of Ms *)
fromMs(t) == Double(FALSE, t \div Ms(1), 0, 0)

(* 1000 / 60 = 0x1.0AAAAAAAAAAABp4 *)
timeStepDouble == Double(FALSE, 16, 11184810, 11184811)

isPositive(x) == ~x.neg /\ (x.int > 0 \/ x.hi > 0 \/ x.lo > 0)

(* |x| < |y| *)
magnitudeBelow(x, y) ==
  \/ x.int < y.int
  \/ x.int = y.int /\ x.hi < y.hi
  \/ x.int = y.int /\ x.hi = y.hi /\ x.lo < y.lo

(* the exact |x| - |y| for |x| >= |y|, limb by limb with borrows *)
borrowLo(x, y) == IF x.lo < y.lo THEN 1 ELSE 0
borrowHi(x, y) == IF x.hi - borrowLo(x, y) < y.hi THEN 1 ELSE 0
magnitudeDifference(neg, x, y) ==
  Double(neg,
         x.int - y.int - borrowHi(x, y),
         x.hi - y.hi - borrowLo(x, y) + borrowHi(x, y) * Limb,
         x.lo - y.lo + borrowLo(x, y) * Limb)

(* the binary exponent of an integer part from 32 to 2^14 - 1 *)
exponent(int) == CHOOSE e \in 5..13 : 2^e <= int /\ int < 2^(e + 1)

(* the fraction bits that a 53-bit significand cannot hold at this         *)
(* magnitude: none below 32                                                *)
droppedBits(x) == IF x.int < 32 THEN 0 ELSE exponent(x.int) - 4

(* round to nearest, ties to even, on the lowest limb; a carry runs up     *)
roundUp(lo, k) ==
  LET rest == lo % 2^k
      half == 2^(k - 1)
  IN rest > half \/ (rest = half /\ (lo \div 2^k) % 2 = 1)

roundedLo(lo, k) ==
  IF k = 0 THEN lo
  ELSE (lo \div 2^k + (IF roundUp(lo, k) THEN 1 ELSE 0)) * 2^k

carry(x, lo) ==
  IF lo < Limb THEN [x EXCEPT !.lo = lo]
  ELSE IF x.hi + 1 < Limb THEN [x EXCEPT !.lo = 0, !.hi = @ + 1]
  ELSE [x EXCEPT !.lo = 0, !.hi = 0, !.int = @ + 1]

roundToDouble(x) == carry(x, roundedLo(x.lo, droppedBits(x)))

(* x - y in double arithmetic, for x >= 0 and y > 0: a negative result is  *)
(* below 32 in magnitude and exact                                         *)
minus(x, y) ==
  IF magnitudeBelow(x, y)
  THEN magnitudeDifference(TRUE, y, x)
  ELSE roundToDouble(magnitudeDifference(FALSE, x, y))

(***************************************************************************)
(* Player.update with the duration counters held as doubles                *)
(***************************************************************************)
(* variant of speedBoostAfter that never ends the boost *)
speedBoostAfter_keepsBoost(p, d) ==
  [p EXCEPT !.speedBoostDuration = d]

speedBoostAfter(p, d) ==
  IF ~isPositive(d)
  THEN [p EXCEPT !.speedBoostDuration = d,
                 !.hasSpeedBoost = FALSE,
                 !.speedBoost = 0]
  ELSE [p EXCEPT !.speedBoostDuration = d]

Double_updateSpeedBoost(p) ==
  IF p.hasSpeedBoost
  THEN speedBoostAfter(p, minus(p.speedBoostDuration, timeStepDouble))
  ELSE p

invincibilityAfter(p, d) ==
  LET f == p.invincibilityFlashTimer + timeStep
      flash == f >= Ms(100)
      vis == IF flash THEN ~p.isVisible ELSE p.isVisible
  IN [p EXCEPT !.invincibilityDuration = d,
               !.invincibilityFlashTimer = IF flash THEN 0 ELSE f,
               !.invincible = isPositive(d),
               !.isVisible = IF ~isPositive(d) THEN TRUE ELSE vis]

Double_updateInvincibility(p) ==
  IF p.invincible
  THEN invincibilityAfter(p, minus(p.invincibilityDuration, timeStepDouble))
  ELSE p

Double_updateJumpBuffer(p) ==
  IF isPositive(p.jumpBufferCounter)
  THEN IF ~p.isJumping /\ p.y >= groundY - p.height
       THEN [executeJump(p) EXCEPT !.jumpBufferCounter = fromMs(0)]
       ELSE [p EXCEPT !.jumpBufferCounter = minus(@, timeStepDouble)]
  ELSE p

Double_Player_update(p) ==
  IF p.isCrashed
  THEN updateCrashed(p)
  ELSE clampToGround(updateLanding(Double_updateJumpBuffer(
         updateCoyoteTime(updatePosition(
           Double_updateInvincibility(Double_updateSpeedBoost(p)))))))

(* an assignment of a number literal to a counter stores that number as a  *)
(* double: p is the player before a method, q the result of the method on  *)
(* withoutCounters(p), whose counters are nonzero only where it set them   *)
withoutCounters(p) ==
  [p EXCEPT !.speedBoostDuration = 0,
            !.invincibilityDuration = 0,
            !.jumpBufferCounter = 0]

withCounters(p, q) ==
  [q EXCEPT !.speedBoostDuration = IF @ > 0 THEN fromMs(@) ELSE p.speedBoostDuration,
            !.invincibilityDuration = IF @ > 0 THEN fromMs(@) ELSE p.invincibilityDuration,
            !.jumpBufferCounter = IF @ > 0 THEN fromMs(@) ELSE p.jumpBufferCounter]

(***************************************************************************)
(* SpecTimers: the Player with double counters under update ticks, jump    *)
(* and slide inputs, obstacle hits and pickups.  An input arrives before   *)
(* any boost or invincibility has been set; a hit arrives at a player who  *)
(* runs on the ground and none of whose counters has been set, and so does *)
(* a pickup, the first of the run.                                         *)
(***************************************************************************)
InitTimers ==
  /\ player = [NewPlayer EXCEPT !.speedBoostDuration = fromMs(@),
                                !.invincibilityDuration = fromMs(@),
                                !.jumpBufferCounter = fromMs(@)]
  /\ level = NewLevel
  /\ game = StartedGame
  /\ impulses = 0
  /\ sprites = NewSprites
  /\ localStorage = <<>>
  /\ now = 0
  /\ log = NewLog

noEffectYet(p) ==
  /\ canCollide(p)
  /\ p.speedBoostDuration = fromMs(0)
  /\ p.invincibilityDuration = fromMs(0)

atRest(p) ==
  /\ noEffectYet(p)
  /\ grounded(p) /\ ~p.isSliding
  /\ p.jumpBufferCounter = fromMs(0)

slowed(p) == p.hasSpeedBoost /\ p.speedBoost < 0

TimerTick ==
  /\ player.isActive
  /\ player' = Double_Player_update(player)
  /\ log' = [log EXCEPT !.slowedTicks = IF slowed(player) THEN @ + 1 ELSE @]
  /\ UNCHANGED <<level, game, impulses, sprites, localStorage, now>>

TimerJump ==
  /\ inputAccepted
  /\ noEffectYet(player)
  /\ player.y > groundY - standHeight - Px(MaxAltitude)
  /\ player' = withCounters(player, jump(withoutCounters(player)))
  /\ UNCHANGED <<level, game, impulses, sprites, localStorage, now, log>>

TimerSlide ==
  /\ noEffectYet(player)
  /\ SlideInput

TimerEndSlide ==
  /\ noEffectYet(player)
  /\ EndSlideInput

(* the iteration of Level.updateObstacles for an obstacle that overlaps    *)
(* the player: sprites.obstacles is the list it leaves                     *)
hitObstacle(type) ==
  ObstacleFactory_create(type, levelSpeed, levelGroundY, DefaultObstacleDraw.above)

TimerHit(type) ==
  /\ atRest(player)
  /\ player' = withCounters(player, Obstacle_applyEffect(type, withoutCounters(player)))
  /\ sprites' = [sprites EXCEPT !.obstacles =
                   pruneInactive(<<hitObstacle(type)>>, 1,
                                 Obstacle_afterEffect(hitObstacle(type), player))]
  /\ log' = [log EXCEPT !.slowedTicks = 0]
  /\ UNCHANGED <<level, game, impulses, localStorage, now>>

TimerCollect(type) ==
  /\ atRest(player)
  /\ player.score = 0
  /\ player' = withCounters(player, Collectible_applyEffect(type, withoutCounters(player)))
  /\ UNCHANGED <<level, game, impulses, sprites, localStorage, now, log>>

NextTimers ==
  \/ TimerTick
  \/ TimerJump
  \/ TimerSlide
  \/ TimerEndSlide
  \/ \E type \in ObstacleTypes : TimerHit(type)
  \/ \E type \in CollectibleTypes : TimerCollect(type)

SpecTimers == InitTimers /\ [][NextTimers]_vars

(***************************************************************************)
(* Claims checked under SpecTimers                                         *)
(***************************************************************************)
(* the duration, in the unit of Ms, that belongs to a negative boost *)
slowDownDuration(boost) == IF boost = -150 THEN Ms(3000) ELSE Ms(2000)

(* a Meeting or MergeConflict overlaps a player who is not invincible (no  *)
(* obstacle waits in the list, and none is left after the step)            *)
slowDownHit(type) ==
  /\ TimerHit(type)
  /\ type \in {"meeting", "mergeConflict"}
  /\ ~player.invincible

(* C22: the player's speedBoostDuration, invincibilityDuration and         *)
(* jumpBufferCounter are never negative in any reachable state.            *)
C22_CountersNeverNegative ==
  /\ ~player.speedBoostDuration.neg
  /\ ~player.invincibilityDuration.neg
  /\ ~player.jumpBufferCounter.neg

(***************************************************************************)
(* Claims on the slide input, checked under SpecPlayer                     *)
(***************************************************************************)
(* C23: Player.slide() on an airborne player (isJumping, or y above the    *)
(* ground level) is a no-op: isSliding stays false, height stays 50 and no *)
(* other field changes.                                                    *)
C23_AirborneSlideIsNoOp ==
  [][ (SlideInput /\ inAir(player)) =>
        /\ player' = player
        /\ ~player'.isSliding
        /\ player'.height = standHeight ]_vars

(* C27: Player.reset() in any reachable state restores every gameplay      *)
(* field to the value of a freshly constructed Player: position, height,   *)
(* velocity, state flags, canDoubleJump, the coyote and jump-buffer        *)
(* counters, the boost and invincibility timers and the counters.          *)
C27_ResetRestoresFreshPlayer == Player_reset(player) = NewPlayer

(***************************************************************************)
(* Claims on the crashed player, checked under SpecSprites                 *)
(***************************************************************************)
(* the fields that Obstacle.applyEffect and Collectible.applyEffect set    *)
effectFields(p) ==
  << p.score, p.coffeeCount, p.codeSnippets, p.gitCommits,
     p.hasSpeedBoost, p.speedBoost, p.speedBoostDuration,
     p.invincible, p.invincibilityDuration >>

(* the sprite is in the list after the update that moved it *)
keptIn(list, sprite) ==
  \E j \in DOMAIN list :
     /\ list[j].type = sprite.type
     /\ list[j].initialY = sprite.initialY
     /\ list[j].x = sprite.x + spriteStep(sprite.velocityX)

(* every sprite whose left edge is still on the screen is kept *)
leftOnlyOffScreen(before, after) ==
  \A i \in DOMAIN before :
     before[i].x + spriteStep(before[i].velocityX) >= 0 => keptIn(after, before[i])

(* C24: while the player is Crashed an update (the level's distance        *)
(* advances) applies no obstacle or collectible effect: the player only    *)
(* falls, its counters, boost and invincibility are unchanged, and         *)
(* obstacles and collectibles leave the collections only by scrolling off  *)
(* the screen.                                                             *)
C24_NoEffectWhileCrashed ==
  [][ (player.isCrashed /\ level'.distance > level.distance) =>
        /\ player' = updateCrashed(player)
        /\ effectFields(player') = effectFields(player)
        /\ leftOnlyOffScreen(sprites.obstacles, sprites'.obstacles)
        /\ leftOnlyOffScreen(sprites.collectibles, sprites'.collectibles) ]_vars

(* an obstacle overlaps the player, who crashed in an earlier update and   *)
(* has been falling since                                                  *)
C24_Witness ==
  /\ player.isCrashed
  /\ player.isActive
  /\ player.velocityY > jumpForce \div 2
  /\ \E i \in DOMAIN sprites.obstacles :
        /\ sprites.obstacles[i].isActive
        /\ isCollidingWith(sprites.obstacles[i], player)

(***************************************************************************)
(* Claims on the deadline, checked under SpecLevel                         *)
(***************************************************************************)
(* C25: Level.isDeadlineWarning is false while the deadline proximity is   *)
(* below 70% and true once the proximity has reached 70%, which it does    *)
(* before the deadline catches the player.                                 *)
C25_WarningFromSeventyPercent ==
  /\ getDeadlineProximity(level) < deadlineWarningThreshold * DeadlineUnit
       => ~isDeadlineWarning(level)
  /\ getDeadlineProximity(level) >= deadlineWarningThreshold * DeadlineUnit
       => isDeadlineWarning(level)

(* C26: on every Level.update of a running game (the distance advances)    *)
(* the deadline position strictly increases, whatever the speed boost and  *)
(* the grace period.                                                       *)
C26_DeadlineAlwaysAdvances ==
  [][ level'.distance > level.distance =>
        level'.deadlinePosition > level.deadlinePosition ]_vars

(***************************************************************************)
(* Claims on the collision boxes, checked under SpecSprites                *)
(***************************************************************************)
(* the box that updateCollisionBox derives from the sprite's position and  *)
(* size                                                                    *)
boxInSync(sprite) ==
  sprite.collisionBox = spriteBox(sprite.x, sprite.y, sprite.width, sprite.height)

(* C28: after every update each live obstacle and collectible has the      *)
(* collision box derived from its current position and size (x + 5, y + 5, *)
(* width - 10, height - 10): the box never lags behind the sprite.         *)
C28_BoxesInSync ==
  /\ \A i \in DOMAIN sprites.obstacles :
        sprites.obstacles[i].isActive => boxInSync(sprites.obstacles[i])
  /\ \A i \in DOMAIN sprites.collectibles :
        sprites.collectibles[i].isActive => boxInSync(sprites.collectibles[i])

(* what a slow-down hit does in the tick of the collision: no crash, the   *)
(* negative boost with its duration, and the obstacle gone from the list   *)
slowDownApplied ==
  \A type \in {"meeting", "mergeConflict"} :
     slowDownHit(type) =>
       /\ ~player'.isCrashed
       /\ player'.hasSpeedBoost
       /\ player'.speedBoost = (IF type = "meeting" THEN -100 ELSE -150)
       /\ player'.speedBoostDuration = fromMs(slowDownDuration(player'.speedBoost))
       /\ sprites'.obstacles = <<>>

MaxCrashDistance == 30
(* jump keys reach a crashed player only between updates whose count since *)
(* the crash is a multiple of this; before the crash the keys arrive only  *)
(* before the first update                                                 *)
FallKeySpacing == 8

fallKeyDue ==
  IF player.isCrashed
  THEN log.crashedTicks % FallKeySpacing = 0
  ELSE level.distance = 0

FallJump ==
  /\ inputAccepted
  /\ fallKeyDue
  /\ player' = jump(player)
  /\ UNCHANGED <<level, game, impulses, sprites, localStorage, now, log>>

FallSlide == (player.isCrashed \/ level.distance = 0) /\ SlideInput

FallEndSlide == (player.isCrashed \/ level.distance = 0) /\ EndSlideInput

FallTick(hitO) ==
  /\ game.isRunning /\ ~game.isPaused
  /\ player.isCrashed \/ level.distance < Dist(MaxCrashDistance)
  /\ hitO # "none" => canCollide(Player_update(player))
  /\ LET r == Game_update(game, level, player, hitO, "none")
     IN /\ game' = r.game
        /\ level' = r.level
        /\ player' = r.player
        /\ localStorage' = IF r.game.isGameOver
                           THEN endGameStorage(game, localStorage)
                           ELSE localStorage
        /\ log' = [ (IF r.game.isGameOver
                     THEN logSubmit(log, localStorage, game)
                     ELSE log)
                    EXCEPT !.crashedTicks = IF player.isCrashed THEN @ + 1 ELSE @ ]
  /\ UNCHANGED <<impulses, sprites, now>>

NextFall ==
  \/ FallJump
  \/ FallSlide
  \/ FallEndSlide
  \/ \E hitO \in {"none"} \cup CrashTypes : FallTick(hitO)

(* gameLoop runs Game.update on every animation frame while the game runs *)
SpecFall ==
  /\ Init /\ [][NextFall]_vars
  /\ WF_vars(\E hitO \in {"none"} \cup CrashTypes : FallTick(hitO))

(***************************************************************************)
(* Claims checked under SpecFall                                           *)
(***************************************************************************)
(* the number of Game.update calls on a crashed player within which the    *)
(* run is over                                                             *)
MaxFallTicks == 200

gameOver == game.isGameOver /\ ~game.isRunning

(* C30: once the player is crashed, whatever jump and slide keys arrive,   *)
(* at most MaxFallTicks updates are made before the run is over: until     *)
(* then the game keeps running unpaused, so that gameLoop goes on updating, *)
(* and the run is over (game over set, running cleared) on the update that *)
(* makes the player, fallen below groundY + 200, inactive                  *)
C30_CrashedRunEnds ==
  player.isCrashed
    => /\ log.crashedTicks <= MaxFallTicks
       /\ IF gameOver
          THEN ~player.isActive /\ player.y > groundY + Px(200)
          ELSE player.isActive /\ game.isRunning /\ ~game.isPaused

C30_Witness ==
  /\ player.isCrashed /\ gameOver
  /\ player.isDoubleJumping /\ player.height = slideHeight
  /\ log.crashedTicks > 120

(***************************************************************************)
(* The older Level (src/unnamed/part_003): its deadline is a position in   *)
(* px that advances by (50 / playerSpeed) * difficulty * 0.7 px per        *)
(* second.  Positions are held in units of 1 / VariantUnit px, in which    *)
(* the advance of one update is a whole number for the speeds 300 and 200. *)
(* 100 px is beyond the integers of the checker, so positions are compared *)
(* with whole px through their integer part, which is exact for >=.        *)
(***************************************************************************)
VariantUnit == 28800000

(* (50 / playerSpeed) * difficulty * 0.7 * (deltaTime / 1000) *)
Variant_deadlineStep(l, playerSpeed) ==
  (35 * (VariantUnit \div (60 * DifficultyOne)) * l.difficulty) \div playerSpeed

Variant_updateDeadline(l, playerSpeed) ==
  [l EXCEPT !.deadlinePosition = @ + Variant_deadlineStep(l, playerSpeed)]

(* what updateDeadline, and with it Level.update, returns *)
Variant_updateDeadlineResult(l) ==
  l.deadlinePosition \div VariantUnit >= playerX - 50

Variant_isDeadlineCaught(l) == l.deadlinePosition \div VariantUnit >= 100

(* Level.update of the older Level, for a player who stays on the ground *)
Variant_Level_update(l, p, hitO) ==
  LET l1 == updateDifficulty(updateDistance(l, getSpeed(p)))
      p1 == IF hitO # "none" /\ canCollide(p)
            THEN Obstacle_applyEffect(hitO, p) ELSE p
  IN [level |-> Variant_updateDeadline(l1, getSpeed(p1)), player |-> p1]

(***************************************************************************)
(* SpecVariant: Game.update ticks over the older Level, with a player who  *)
(* stays on the ground and meets Meetings early in the run; the run ends   *)
(* when Level.update returns true.                                         *)
(***************************************************************************)
(* Meetings are met only before this distance in px *)
MaxVariantHitDistance == 3500

VariantTick(hitO) ==
  /\ game.isRunning /\ ~game.isPaused
  /\ hitO # "none"
       => eventDue(level, player) /\ level.distance < Dist(MaxVariantHitDistance)
  /\ \E r \in {Variant_Level_update(level, Player_update(player), hitO)} :
       /\ level' = r.level
       /\ player' = r.player
       /\ log' = [log EXCEPT !.caught = Variant_updateDeadlineResult(r.level)]
       /\ game' = IF Variant_updateDeadlineResult(r.level)
                  THEN endGame(game)
                  ELSE [game EXCEPT !.score = (r.level.distance \div 6) + r.player.score]
  /\ UNCHANGED <<impulses, sprites, localStorage, now>>

NextVariant == \E hitO \in {"none", "meeting"} : VariantTick(hitO)

SpecVariant == Init /\ [][NextVariant]_vars

(* C31: what Level.update returned is what isDeadlineCaught() then says    *)
C31_UpdateReportsCatch == log.caught <=> Variant_isDeadlineCaught(level)

(***************************************************************************)
(* Further claims checked under SpecPlayer                                 *)
(***************************************************************************)
(* C32: the height is the slide height only while the player is sliding,   *)
(* and the standing height whenever the player is not sliding              *)
C32_HeightFollowsSliding ==
  /\ player.height = slideHeight => player.isSliding
  /\ ~player.isSliding => player.height = standHeight

(***************************************************************************)
(* SpecInput: the keyboard and touch handlers of Game.setupEventListeners  *)
(* around a pause, with Player.update ticks while the game is not paused.  *)
(* Every handler is called whenever its event arrives while the game runs; *)
(* its early returns are the branches below.                               *)
(***************************************************************************)
handleJump(g, p) == IF g.isPaused THEN p ELSE jump(p)

slideEndArrives(lg) == [lg EXCEPT !.slideEnded = TRUE]
slideStartArrives(lg) == [lg EXCEPT !.slideEnded = FALSE]

(* keydown Space / ArrowUp *)
KeyJump ==
  /\ game.isRunning
  /\ grounded(player)
  /\ player' = handleJump(game, player)
  /\ UNCHANGED <<level, game, impulses, sprites, localStorage, now, log>>

(* keydown ArrowDown *)
KeySlide ==
  /\ game.isRunning
  /\ game' = [game EXCEPT !.isSlidePressed = TRUE]
  /\ player' = slide(player)
  /\ log' = slideStartArrives(log)
  /\ UNCHANGED <<level, impulses, sprites, localStorage, now>>

(* keyup ArrowDown *)
KeyEndSlide ==
  /\ game.isRunning
  /\ game' = [game EXCEPT !.isSlidePressed = FALSE]
  /\ player' = endSlide(player)
  /\ log' = slideEndArrives(log)
  /\ UNCHANGED <<level, impulses, sprites, localStorage, now>>

(* touchstart in the bottom part of the canvas (slide) or above it (jump) *)
TouchStart(bottom) ==
  /\ game.isRunning
  /\ grounded(player)
  /\ IF game.isPaused
     THEN UNCHANGED <<game, player>>
     ELSE IF bottom
     THEN /\ game' = [game EXCEPT !.isSlidePressed = TRUE]
          /\ player' = slide(player)
     ELSE /\ game' = game
          /\ player' = handleJump(game, player)
  /\ log' = IF bottom THEN slideStartArrives(log) ELSE log
  /\ UNCHANGED <<level, impulses, sprites, localStorage, now>>

(* touchend *)
TouchEnd ==
  /\ game.isRunning
  /\ IF game.isPaused \/ ~game.isSlidePressed
     THEN UNCHANGED <<game, player>>
     ELSE /\ game' = [game EXCEPT !.isSlidePressed = FALSE]
          /\ player' = endSlide(player)
  /\ log' = slideEndArrives(log)
  /\ UNCHANGED <<level, impulses, sprites, localStorage, now>>

(* the P / Escape key *)
PauseKey ==
  /\ game' = togglePause(game, now)
  /\ UNCHANGED <<player, level, impulses, sprites, localStorage, now, log>>

InputTick == ~game.isPaused /\ PlayerTick

NextInput ==
  \/ KeyJump
  \/ KeySlide
  \/ KeyEndSlide
  \/ \E bottom \in BOOLEAN : TouchStart(bottom)
  \/ TouchEnd
  \/ PauseKey
  \/ InputTick

SpecInput == Init /\ [][NextInput]_vars

(* C33: while the game is paused the keyboard's jump and slide keys leave  *)
(* the player as it is, and once a slide-end input (keyup or touchend) has *)
(* arrived the player is not sliding until the next slide-start input      *)
C33_PauseFreezesPlayer ==
  /\ [][ (game.isPaused /\ (KeyJump \/ KeySlide)) => player' = player ]_vars
  /\ [](log.slideEnded => ~player.isSliding)

(***************************************************************************)
(* SpecScreens: the game under its buttons and keys in any order: frames   *)
(* one time step apart, the pause button, the help button, START, and      *)
(* Space / Enter or TRY AGAIN once the game is over.                       *)
(***************************************************************************)
(* while the game runs the buttons are pressed only at whole multiples of  *)
(* this many ms                                                            *)
ScreenSpacing == 1000
(* START is pressed at most this many times *)
MaxScreenStarts == 2

screenEventDue == game.isRunning => now % Ms(ScreenSpacing) = 0

ScreenFrame(hitO) == Frame(timeStep, hitO)

PauseButton ==
  /\ screenEventDue
  /\ game' = togglePause(game, now)
  /\ log' = IF game'.isPaused /\ ~game.isPaused
            THEN [log EXCEPT !.pauses = Min(@ + 1, MaxPauses)] ELSE log
  /\ UNCHANGED <<player, level, impulses, sprites, localStorage, now>>

HelpButton ==
  /\ screenEventDue
  /\ game' = showInstructions(game)
  /\ UNCHANGED <<player, level, impulses, sprites, localStorage, now, log>>

StartButton ==
  /\ screenEventDue
  /\ log.starts < MaxScreenStarts
  /\ game' = startGame(game, now)
  /\ player' = NewPlayer
  /\ level' = NewLevel
  /\ log' = [log EXCEPT !.starts = @ + 1, !.frameUpdates = 0, !.resumedAt = -1]
  /\ UNCHANGED <<impulses, sprites, localStorage, now>>

RestartKey ==
  /\ game.isGameOver
  /\ game' = restartGame(game, now)
  /\ player' = NewPlayer
  /\ level' = NewLevel
  /\ log' = [log EXCEPT !.frameUpdates = 0, !.resumedAt = -1]
  /\ UNCHANGED <<impulses, sprites, localStorage, now>>

NextScreens ==
  \/ \E hitO \in LoopObstacles : ScreenFrame(hitO)
  \/ PauseButton
  \/ HelpButton
  \/ StartButton
  \/ RestartKey

SpecScreens == Init /\ [][NextScreens]_vars

(* C34: the game is never over and running at once, and it is paused only  *)
(* while it is running                                                     *)
C34_GameFlagsConsistent ==
  /\ ~(game.isGameOver /\ game.isRunning)
  /\ game.isPaused => game.isRunning

C34_Witness ==
  /\ game.isGameOver /\ ~game.isRunning /\ ~game.isPaused
  /\ log.starts >= 1 /\ log.pauses >= 1

(* C35: at most one gameLoop callback is pending *)
C35_OneLoop == Cardinality(game.pendingFrames) <= 1

C35_Witness ==
  /\ game.pendingFrames = {game.animationFrameId}
  /\ log.starts >= 1 /\ log.submits >= 1
  /\ level.distance > 0

(***************************************************************************)
(* Further claims checked under SpecLoop                                   *)
(***************************************************************************)
(* a step of gameLoop: a callback was pending and a frame's time went by   *)
(* (keys arrive less than a time step after a frame)                       *)
frameStep == game.pendingFrames # {} /\ now' >= now + timeStep

(* C36: the accumulator stays within [0, timeStep), and a frame makes one  *)
(* update per time step it takes out of the accumulator: what was          *)
(* accumulated and what went by is what the updates used up (timeStep      *)
(* each) and what is left                                                  *)
C36_AccumulatorDrained ==
  /\ [](0 <= game.accumulatedTime /\ game.accumulatedTime < timeStep)
  /\ [][ (frameStep /\ ~game.isPaused /\ log'.frameUpdates <= UpdateCap)
           => log'.frameUpdates * timeStep + game'.accumulatedTime
                = game.accumulatedTime + (now' - game.lastFrameTime) ]_vars

C36_Witness ==
  /\ game.accumulatedTime > 0
  /\ log.frameUpdates >= 1
  /\ log.pauses >= 1 /\ ~game.isPaused

(***************************************************************************)
(* Further claims checked under SpecLevel                                  *)
(***************************************************************************)
(* C37: the player's speed is at least baseSpeed - 150, which is above     *)
(* zero, and every update moves the level on                               *)
C37_SpeedStaysPositive ==
  /\ [](getSpeed(player) >= baseSpeed - 150 /\ baseSpeed - 150 > 0)
  /\ [][ level' # level => level'.distance > level.distance ]_vars

C37_Witness ==
  /\ getSpeed(player) = baseSpeed - 150
  /\ level.distance > Dist(EventDistance)
  /\ level.deadlinePosition > 0

(* C38: the score of the game never goes down from one update to the next *)
C38_ScoreNeverDecreases == [][ game'.score >= game.score ]_vars

C38_Witness ==
  /\ player.score >= 100
  /\ game.score = (level.distance \div 6) + player.score
  /\ getSpeed(player) < baseSpeed

(***************************************************************************)
(* SpecFlicker: a player on the ground under update ticks, with            *)
(* StackOverflow and GitCommit pickups and Bug hits arriving on any tick,  *)
(* so that a grant of invincibility can fall anywhere in the flicker of    *)
(* the one before.                                                         *)
(***************************************************************************)
(* pickups are made only below this score *)
MaxFlickerScore == 250

FlickerCollect(type) ==
  /\ canCollide(player)
  /\ player.score < MaxFlickerScore
  /\ player' = Collectible_applyEffect(type, player)
  /\ UNCHANGED <<level, game, impulses, sprites, localStorage, now, log>>

FlickerHit ==
  /\ canCollide(player)
  /\ player' = Obstacle_applyEffect("bug", player)
  /\ UNCHANGED <<level, game, impulses, sprites, localStorage, now, log>>

NextFlicker ==
  \/ PlayerTick
  \/ \E type \in {"stackOverflow", "gitCommit"} : FlickerCollect(type)
  \/ FlickerHit

SpecFlicker == Init /\ [][NextFlicker]_vars

(* C39: a player who is not invincible is visible *)
C39_VisibleUnlessInvincible == ~player.invincible => player.isVisible

(* both kinds of grants have been made and have run out, the later one     *)
(* out of step with the flicker                                            *)
C39_Witness ==
  /\ ~player.invincible /\ player.isVisible
  /\ player.score = 250 /\ player.gitCommits = 0
  /\ player.invincibilityFlashTimer # 0
  /\ ~player.isCrashed

(***************************************************************************)
(* Claims checked under SpecSprites: the first seconds of a run            *)
(***************************************************************************)
(* C40: no obstacle exists during the first 3 seconds of game time: the    *)
(* level's obstacle list is empty in every state whose distance divided by *)
(* the level speed is below 3                                              *)
C40_NoEarlyObstacle ==
  level.distance < Dist(3 * levelSpeed) => sprites.obstacles = <<>>

(* a second run, started over from a run with obstacles on screen, is in   *)
(* its first 3 seconds with its spawners at work                           *)
C40_Witness ==
  /\ log.starts = 1 /\ log.startedOver
  /\ level.distance > 0 /\ level.distance < Dist(3 * levelSpeed)
  /\ sprites.obstacleTimer > 0 /\ sprites.collectibles # <<>>
  /\ sprites.obstacles = <<>>
====
